---------------------------- MODULE Spec2Model ----------------------------
(***************************************************************************)
(* GarageDoorControl: a model of the debounced input pin (InputPin /       *)
(* DoorStatusPin) and of the door controller (DoorState / DoorStatusCalc). *)
(*                                                                         *)
(* SpecPin  : one InputPin receiving interrupt notifications.              *)
(* SpecDoor : the door controller: the poll loop (UpdateDoorState and      *)
(*            DoRequest, one memory write at a time) interleaved with the  *)
(*            interrupt handlers (switch press, pulse-release timer).      *)
(* SpecList : the FixedIPList of multicast destinations under Add calls.   *)
(* SpecUdp  : UDPWiFiService::ProcessUDPMessage on inbound messages.       *)
(* SpecNet  : the poll loop's use of the network service: connect, poll    *)
(*            for a request, reply, multicast, door news, onboarding.      *)
(***************************************************************************)
EXTENDS Integers, Sequences, FiniteSets, TLC

VARIABLES
    pin,        \* the InputPin object: its const and volatile members
    nowMs,      \* millis(), kept modulo ClockMod
    newReading, \* ProcessISR's local: the level digitalRead returned
    isrBranch,  \* history: the branch the last ProcessISR call took
    isrElapsed, \* history: ulNow - m_LastChangedTime of the last call
    hooks,      \* history: MatchAction / UnmatchAction calls and DoEvent events
    firstRead   \* history: the level the InputPin constructor read

pinVars == <<pin, nowMs, newReading, isrBranch, isrElapsed, hooks, firstRead>>

VARIABLES
    door,       \* DoorStatusCalc's state and direction, the four relay pins, the
                \* callbacks of this object registered with TheTimer
    mainPc,     \* where the poll loop is: idle, inside UpdateStatus, inside DoRequest
    mainOps,    \* the writes the poll loop's current call still has to make
    mainReq,    \* DoRequest's parameter eRequest
    bIsOpen,    \* UpdateStatus's local: the open sensor as read
    bIsClosed,  \* UpdateStatus's local: the closed sensor as read
    updPrior,   \* history: state and direction when UpdateStatus chose its branch
    lastStep,   \* history: the function whose code ran in the last step, and
                \* the state and direction it found
    mainAlone   \* history: no interrupt handler has run since the poll loop's
                \* current call was entered

doorVars ==
    <<door, mainPc, mainOps, mainReq, bIsOpen, bIsClosed, updPrior, lastStep, mainAlone>>

VARIABLES
    ipList,     \* the FixedIPList object: m_pIPList and m_nextEntry
    ipCalls,    \* number of Add calls made
    ipStored,   \* history: the additions Add has stored, in the order of the calls
    ipLast      \* history: the last Add call: its parameter and the list before it

listVars == <<ipList, ipCalls, ipStored, ipLast>>

VARIABLES
    udp,        \* the UDPWiFiService object: m_ulBadRequests and m_ulBadMgsVersion
    udpMsgs,    \* number of messages handed to ProcessUDPMessage
    udpLast     \* history: the last message, the calls of m_MsgHandlerCallback and
                \* of ResetBoard it caused, and the counters before it

udpVars == <<udp, udpMsgs, udpLast>>

VARIABLES
    svc,        \* the WiFiService / UDPWiFiService object: m_State, its counters,
                \* and whether m_myUDP has been begun
    wl,         \* the radio: WiFi.status () == WL_CONNECTED
    lastNews,   \* loop's statics LastDoorState and LastLightState
    svcOps,     \* number of service operations made
    svcLast     \* history: the last service operation and what it did

svcVars == <<svc, wl, lastNews, svcOps, svcLast>>

netVars == <<listVars, udpVars, svcVars>>

vars == <<pinVars, doorVars, netVars>>

-----------------------------------------------------------------------------
(* Bounds of the model *)

\* number of interrupt notifications explored
MaxISR == 5

\* number of FixedIPList::Add calls explored
MaxAdds == 6

\* the addresses added are EmptyAddress .. MaxAddress
MaxAddress == 5

\* number of inbound messages explored
MaxMsgs == 3

\* UDPWiFiService: the size of ReadUDPMessage's buffer
MAX_INCOMING_UDP_MSG == 255

\* number of network service operations explored
MaxNetOps == 2

\* millis() is a uint32_t that wraps; the model keeps the wrap at ClockMod.
\* It stays above the sum of the time steps of MaxISR + 1 notifications, so
\* that every modular difference is the elapsed time, as in the code.
ClockMod == 16384

-----------------------------------------------------------------------------
(* Program constants *)

SWITCH_DEBOUNCE_MS == 100
MAX_SWITCH_MATCH_TIMER_MS == 2000
DEBOUNCE_MS == 50
MAX_MATCH_TIMER_MS == 1000

\* new FixedIPList ( 4 )
MaxEntries == 4

\* IPAddress ( 0UL )
EmptyAddress == 0

PinLevels == {"LOW", "HIGH"}

\* The InputPin objects the DoorState constructor creates: the two boundary
\* sensors, the light sensor (no door, no maximum matched time) and the switch.
PinConfigs ==
    { [name |-> "boundary", m_pDoor |-> "door", m_doorMatchEvent |-> "Nothing",
       m_doorUnmatchEvent |-> "Nothing", m_Debouncems |-> DEBOUNCE_MS,
       m_maxMatchedTimems |-> MAX_MATCH_TIMER_MS, m_MatchStatus |-> "HIGH"],
      [name |-> "light", m_pDoor |-> "nullptr", m_doorMatchEvent |-> "Nothing",
       m_doorUnmatchEvent |-> "Nothing", m_Debouncems |-> DEBOUNCE_MS,
       m_maxMatchedTimems |-> 0, m_MatchStatus |-> "HIGH"],
      [name |-> "switch", m_pDoor |-> "door", m_doorMatchEvent |-> "Nothing",
       m_doorUnmatchEvent |-> "SwitchPress", m_Debouncems |-> SWITCH_DEBOUNCE_MS,
       m_maxMatchedTimems |-> MAX_SWITCH_MATCH_TIMER_MS, m_MatchStatus |-> "HIGH"] }

-----------------------------------------------------------------------------
(* InputPin *)

\* uint32_t subtraction ulNow - m_LastChangedTime
Elapsed(ulNow, last) == (ulNow - last + ClockMod) % ClockMod

\* InputPin::InputPin: the members after construction on a line reading `level`
InputPinInit(cfg, level, ms) ==
    [ cfg                       |-> cfg,
      m_LastChangedTime         |-> ms,
      m_LastPinRead             |-> level,
      m_CurrentMatchedState     |-> (level = cfg.m_MatchStatus),
      m_ISRCalledCount          |-> 0,
      m_DiscardedUnchangedCount |-> 0,
      m_MatchedCount            |-> 0,
      m_UnmatchedCount          |-> 0,
      m_SpuriousCount           |-> 0,
      m_MatchedDuration         |-> 0 ]

\* the debounce test of both branches
DebouncePassedOffByOne(p, elapsed) == elapsed + 1 >= p.cfg.m_Debouncems
DebouncePassed(p, elapsed) == elapsed >= p.cfg.m_Debouncems

\* the maximum matched time test of the unmatch branch
WithinMaxMatchedInclusive(p, elapsed) ==
    p.cfg.m_maxMatchedTimems = 0 \/ elapsed <= p.cfg.m_maxMatchedTimems
WithinMaxMatched(p, elapsed) ==
    p.cfg.m_maxMatchedTimems = 0 \/ elapsed < p.cfg.m_maxMatchedTimems

\* the branch ProcessISR takes
ISRBranchNoRepeatTest(p, reading, elapsed) ==
    IF reading = p.cfg.m_MatchStatus
    THEN IF DebouncePassed(p, elapsed) THEN "match" ELSE "spuriousMatch"
    ELSE IF DebouncePassed(p, elapsed)
         THEN IF WithinMaxMatched(p, elapsed) THEN "unmatch" ELSE "spuriousLong"
         ELSE "spuriousUnmatch"
ISRBranch(p, reading, elapsed) ==
    IF reading = p.m_LastPinRead THEN "repeat"
    ELSE IF reading = p.cfg.m_MatchStatus
         THEN IF DebouncePassed(p, elapsed) THEN "match" ELSE "spuriousMatch"
         ELSE IF DebouncePassed(p, elapsed)
              THEN IF WithinMaxMatched(p, elapsed) THEN "unmatch" ELSE "spuriousLong"
              ELSE "spuriousUnmatch"

\* the repeat branch: only the discard counter
RepeatBranchSilent(p) == p
RepeatBranch(p) == [p EXCEPT !.m_DiscardedUnchangedCount = @ + 1]

\* ProcessISR clearing m_CurrentMatchedState inside the maximum matched time
\* test, in its unmatch branch only
ChangedBranchKeepsFlag(p, branch, reading, ulNow, elapsed) ==
    LET q == CASE branch = "match" ->
                    [p EXCEPT !.m_MatchedCount = @ + 1, !.m_CurrentMatchedState = TRUE]
               [] branch = "unmatch" ->
                    [p EXCEPT !.m_CurrentMatchedState = FALSE,
                              !.m_UnmatchedCount = @ + 1,
                              !.m_MatchedDuration = elapsed]
               [] OTHER ->
                    [p EXCEPT !.m_SpuriousCount = @ + 1]
    IN  [q EXCEPT !.m_LastChangedTime = ulNow, !.m_LastPinRead = reading]

\* the members ProcessISR writes on a changed reading, by branch
ChangedBranch(p, branch, reading, ulNow, elapsed) ==
    LET q == CASE branch = "match" ->
                    [p EXCEPT !.m_MatchedCount = @ + 1, !.m_CurrentMatchedState = TRUE]
               [] branch = "unmatch" ->
                    [p EXCEPT !.m_CurrentMatchedState = FALSE,
                              !.m_UnmatchedCount = @ + 1,
                              !.m_MatchedDuration = elapsed]
               [] branch = "spuriousLong" ->
                    [p EXCEPT !.m_CurrentMatchedState = FALSE, !.m_SpuriousCount = @ + 1]
               [] OTHER -> \* spuriousMatch, spuriousUnmatch
                    [p EXCEPT !.m_SpuriousCount = @ + 1]
    IN  [q EXCEPT !.m_LastChangedTime = ulNow, !.m_LastPinRead = reading]

\* the hooks with their two events exchanged
HookEventSwapped(p, branch) ==
    IF p.cfg.m_pDoor = "nullptr" THEN "none"
    ELSE IF branch = "match" THEN p.cfg.m_doorUnmatchEvent
    ELSE IF branch = "unmatch" THEN p.cfg.m_doorMatchEvent
    ELSE "none"

\* DoorStatusPin::MatchAction / UnmatchAction: the event handed to DoEvent
HookEvent(p, branch) ==
    IF p.cfg.m_pDoor = "nullptr" THEN "none"
    ELSE IF branch = "match" THEN p.cfg.m_doorMatchEvent
    ELSE IF branch = "unmatch" THEN p.cfg.m_doorUnmatchEvent
    ELSE "none"

\* the time steps tried between notifications: around the pin's two thresholds
TimeSteps(cfg) ==
    {cfg.m_Debouncems - 1, cfg.m_Debouncems}
    \cup (IF cfg.m_maxMatchedTimems = 0 THEN {}
          ELSE {cfg.m_maxMatchedTimems - 1, cfg.m_maxMatchedTimems})

\* the values millis() has, modulo ClockMod, when the pin is constructed
StartMillis == {10, ClockMod - 60}

PinInit ==
    \E cfg \in PinConfigs, level \in PinLevels, ms \in StartMillis :
        /\ pin = InputPinInit(cfg, level, ms)
        /\ nowMs = ms
        /\ newReading = level
        /\ isrBranch = "none"
        /\ isrElapsed = 0
        /\ hooks = [MatchAction |-> 0, UnmatchAction |-> 0, event |-> "none"]
        /\ firstRead = level

\* InputPin::ProcessISR, entered dt ms after the previous notification with
\* the line reading `reading`
ProcessISR(reading, dt) ==
    /\ pin.m_ISRCalledCount < MaxISR
    /\ LET ulNow   == (nowMs + dt) % ClockMod
           elapsed == Elapsed(ulNow, pin.m_LastChangedTime)
           branch  == ISRBranch(pin, reading, elapsed)
           counted == [pin EXCEPT !.m_ISRCalledCount = @ + 1]
       IN  /\ nowMs' = ulNow
           /\ newReading' = reading
           /\ isrBranch' = branch
           /\ isrElapsed' = elapsed
           /\ UNCHANGED <<firstRead, doorVars, netVars>>
           /\ pin' = IF branch = "repeat"
                     THEN RepeatBranch(counted)
                     ELSE ChangedBranch(counted, branch, reading, ulNow, elapsed)
           /\ hooks' = [ MatchAction   |-> hooks.MatchAction
                                           + (IF branch = "match" THEN 1 ELSE 0),
                         UnmatchAction |-> hooks.UnmatchAction
                                           + (IF branch = "unmatch" THEN 1 ELSE 0),
                         event         |-> HookEvent(pin, branch) ]

InputPinISR ==
    \E reading \in PinLevels, dt \in TimeSteps(pin.cfg) : ProcessISR(reading, dt)

NextPin == InputPinISR

-----------------------------------------------------------------------------
(* DoorState, DoorStatusCalc *)

States == {"Open", "Opening", "Closed", "Closing", "Stopped", "Unknown", "Bad"}
Directions == {"Up", "Down", "None"}
Events == {"DoorOpenTrue", "DoorOpenFalse", "DoorClosedTrue", "DoorClosedFalse",
           "SwitchPress", "Nothing"}
Requests == {"LightOn", "LightOff", "OpenDoor", "CloseDoor", "StopDoor"}
Relays == {"open", "close", "stop", "light"}

\* One memory or pin write of the controller.
Op(op, arg) == [op |-> op, arg |-> arg]

\* DoorStatusCalc::SetDoorState, SetDoorDirection; OutputPin::On, Off;
\* TheTimer.AddCallBack (arg: whether it succeeds), TheTimer.RemoveCallBack.
\* TheTimer is MNTimerLib, a library outside the repository: AddCallBack
\* registers one more callback of this object or fails, RemoveCallBack removes
\* one registered callback of this object if there is one.
Apply(d, o) ==
    CASE o.op = "SetDoorState"     -> [d EXCEPT !.m_currentState = o.arg]
      [] o.op = "SetDoorDirection" -> [d EXCEPT !.m_LastDirection = o.arg]
      [] o.op = "On"               -> [d EXCEPT !.relay[o.arg] = TRUE]
      [] o.op = "Off"              -> [d EXCEPT !.relay[o.arg] = FALSE]
      [] o.op = "AddCallBack"      ->
            IF o.arg = "ok" THEN [d EXCEPT !.timerCallbacks = @ + 1] ELSE d
      [] o.op = "RemoveCallBack"   ->
            [d EXCEPT !.timerCallbacks = IF @ > 0 THEN @ - 1 ELSE 0]

RECURSIVE ApplyAll(_, _)
ApplyAll(d, ops) ==
    IF ops = <<>> THEN d ELSE ApplyAll(Apply(d, Head(ops)), Tail(ops))

\* UpdateStatus without the SetDoorDirection ( None ) of the Open and Closed branches
UpdateStatusWritesKeepDirection(state, closed, open) ==
    IF ~closed /\ ~open
    THEN CASE state = "Open"   -> << Op("SetDoorDirection", "Down"),
                                     Op("SetDoorState", "Closing") >>
           [] state = "Closed" -> << Op("SetDoorDirection", "Up"),
                                     Op("SetDoorState", "Opening") >>
           [] state = "Bad"    -> << Op("SetDoorDirection", "None"),
                                     Op("SetDoorState", "Unknown") >>
           [] OTHER            -> << >>
    ELSE IF ~closed /\ open
    THEN << Op("SetDoorState", "Open") >>
    ELSE IF closed /\ ~open
    THEN << Op("SetDoorState", "Closed") >>
    ELSE << Op("SetDoorState", "Bad"), Op("SetDoorDirection", "None") >>

\* UpdateStatus with the two directions of the moving branches exchanged
UpdateStatusWritesSwappedDirection(state, closed, open) ==
    IF ~closed /\ ~open
    THEN CASE state = "Open"   -> << Op("SetDoorDirection", "Up"),
                                     Op("SetDoorState", "Closing") >>
           [] state = "Closed" -> << Op("SetDoorDirection", "Down"),
                                     Op("SetDoorState", "Opening") >>
           [] state = "Bad"    -> << Op("SetDoorDirection", "None"),
                                     Op("SetDoorState", "Unknown") >>
           [] OTHER            -> << >>
    ELSE IF ~closed /\ open
    THEN << Op("SetDoorState", "Open"), Op("SetDoorDirection", "None") >>
    ELSE IF closed /\ ~open
    THEN << Op("SetDoorState", "Closed"), Op("SetDoorDirection", "None") >>
    ELSE << Op("SetDoorState", "Bad"), Op("SetDoorDirection", "None") >>

\* UpdateStatus without the case State::Bad of the both-unmatched branch
UpdateStatusWritesNoBadExit(state, closed, open) ==
    IF ~closed /\ ~open
    THEN CASE state = "Open"   -> << Op("SetDoorDirection", "Down"),
                                     Op("SetDoorState", "Closing") >>
           [] state = "Closed" -> << Op("SetDoorDirection", "Up"),
                                     Op("SetDoorState", "Opening") >>
           [] OTHER            -> << >>
    ELSE IF ~closed /\ open
    THEN << Op("SetDoorState", "Open"), Op("SetDoorDirection", "None") >>
    ELSE IF closed /\ ~open
    THEN << Op("SetDoorState", "Closed"), Op("SetDoorDirection", "None") >>
    ELSE << Op("SetDoorState", "Bad"), Op("SetDoorDirection", "None") >>

\* DoorStatusCalc::UpdateStatus: the writes it makes, in the code's order
UpdateStatusWrites(state, closed, open) ==
    IF ~closed /\ ~open
    THEN CASE state = "Open"   -> << Op("SetDoorDirection", "Down"),
                                     Op("SetDoorState", "Closing") >>
           [] state = "Closed" -> << Op("SetDoorDirection", "Up"),
                                     Op("SetDoorState", "Opening") >>
           [] state = "Bad"    -> << Op("SetDoorDirection", "None"),
                                     Op("SetDoorState", "Unknown") >>
           [] OTHER            -> << >>
    ELSE IF ~closed /\ open
    THEN << Op("SetDoorState", "Open"), Op("SetDoorDirection", "None") >>
    ELSE IF closed /\ ~open
    THEN << Op("SetDoorState", "Closed"), Op("SetDoorDirection", "None") >>
    ELSE << Op("SetDoorState", "Bad"), Op("SetDoorDirection", "None") >>

\* DoorState::TurnOffControlPins
TurnOffControlPins ==
    << Op("RemoveCallBack", "-"), Op("Off", "open"), Op("Off", "close"),
       Op("Off", "stop"), Op("Off", "light") >>

\* DoorState::ResetTimer; `added` is what AddCallBack returns
ResetTimer(added) == TurnOffControlPins \o << Op("AddCallBack", added) >>

\* DoorState::SetStateAndDirection
SetStateAndDirection(state, direction) ==
    << Op("SetDoorState", state), Op("SetDoorDirection", direction) >>

\* SwitchPressed with the open and close relays exchanged
SwitchPressedSwapped(state, direction, added) ==
    CASE state = "Closed" -> ResetTimer(added) \o << Op("On", "close") >>
      [] state = "Open"   -> ResetTimer(added) \o << Op("On", "open") >>
      [] state \in {"Opening", "Closing"} ->
            ResetTimer(added) \o << Op("On", "stop"), Op("SetDoorState", "Stopped") >>
      [] state = "Stopped" ->
            CASE direction = "Down" -> ResetTimer(added) \o << Op("On", "close") >>
              [] direction = "Up"   -> ResetTimer(added) \o << Op("On", "open") >>
              [] OTHER              -> << >>
      [] OTHER -> << >>

\* SwitchPressed continuing in the recorded direction from Stopped
SwitchPressedStoppedContinues(state, direction, added) ==
    CASE state = "Closed" -> ResetTimer(added) \o << Op("On", "open") >>
      [] state = "Open"   -> ResetTimer(added) \o << Op("On", "close") >>
      [] state \in {"Opening", "Closing"} ->
            ResetTimer(added) \o << Op("On", "stop"), Op("SetDoorState", "Stopped") >>
      [] state = "Stopped" ->
            CASE direction = "Down" -> ResetTimer(added) \o << Op("On", "close") >>
              [] direction = "Up"   -> ResetTimer(added) \o << Op("On", "open") >>
              [] OTHER              -> ResetTimer(added) \o << Op("On", "open") >>
      [] OTHER -> << >>

\* SwitchPressed releasing the relays in Bad and Unknown
SwitchPressedBadTurnsOff(state, direction, added) ==
    CASE state = "Closed" -> ResetTimer(added) \o << Op("On", "open") >>
      [] state = "Open"   -> ResetTimer(added) \o << Op("On", "close") >>
      [] state \in {"Opening", "Closing"} ->
            ResetTimer(added) \o << Op("On", "stop"), Op("SetDoorState", "Stopped") >>
      [] state = "Stopped" ->
            CASE direction = "Down" -> ResetTimer(added) \o << Op("On", "open") >>
              [] direction = "Up"   -> ResetTimer(added) \o << Op("On", "close") >>
              [] OTHER              -> << >>
      [] OTHER -> TurnOffControlPins

\* SwitchPressed recording the reversed travel when it restarts a stopped door
SwitchPressedStoppedResumes(state, direction, added) ==
    CASE state = "Closed" -> ResetTimer(added) \o << Op("On", "open") >>
      [] state = "Open"   -> ResetTimer(added) \o << Op("On", "close") >>
      [] state \in {"Opening", "Closing"} ->
            ResetTimer(added) \o << Op("On", "stop"), Op("SetDoorState", "Stopped") >>
      [] state = "Stopped" ->
            CASE direction = "Down" ->
                    ResetTimer(added) \o << Op("On", "open"), Op("SetDoorDirection", "Up"),
                                            Op("SetDoorState", "Opening") >>
              [] direction = "Up"   ->
                    ResetTimer(added) \o << Op("On", "close"), Op("SetDoorDirection", "Down"),
                                            Op("SetDoorState", "Closing") >>
              [] OTHER              -> << >>
      [] OTHER -> << >>

\* SwitchPressed forgetting the direction when it stops a moving door
SwitchPressedClearsDirection(state, direction, added) ==
    CASE state = "Closed" -> ResetTimer(added) \o << Op("On", "open") >>
      [] state = "Open"   -> ResetTimer(added) \o << Op("On", "close") >>
      [] state \in {"Opening", "Closing"} ->
            ResetTimer(added) \o << Op("On", "stop"), Op("SetDoorState", "Stopped"),
                                    Op("SetDoorDirection", "None") >>
      [] state = "Stopped" ->
            CASE direction = "Down" -> ResetTimer(added) \o << Op("On", "open") >>
              [] direction = "Up"   -> ResetTimer(added) \o << Op("On", "close") >>
              [] OTHER              -> << >>
      [] OTHER -> << >>

\* DoorState::SwitchPressed
SwitchPressed(state, direction, added) ==
    CASE state = "Closed" -> ResetTimer(added) \o << Op("On", "open") >>
      [] state = "Open"   -> ResetTimer(added) \o << Op("On", "close") >>
      [] state \in {"Opening", "Closing"} ->
            ResetTimer(added) \o << Op("On", "stop"), Op("SetDoorState", "Stopped") >>
      [] state = "Stopped" ->
            CASE direction = "Down" -> ResetTimer(added) \o << Op("On", "open") >>
              [] direction = "Up"   -> ResetTimer(added) \o << Op("On", "close") >>
              [] OTHER              -> << >>
      [] OTHER -> << >> \* Bad, Unknown

\* DoorState::StateTableFn [state][event]: the handler's name
StateTableFn(state, event) ==
    CASE event = "SwitchPress" -> "SwitchPressed"
      [] event = "Nothing" -> "DoNowt"
      [] event = "DoorOpenTrue" ->
            IF state = "Open" THEN "DoNowt" ELSE "NowOpen"
      [] event = "DoorOpenFalse" ->
            IF state \in {"Open", "Unknown", "Bad"} THEN "NowClosing" ELSE "DoNowt"
      [] event = "DoorClosedTrue" ->
            IF state = "Closed" THEN "DoNowt" ELSE "NowClosed"
      [] event = "DoorClosedFalse" ->
            IF state \in {"Closed", "Unknown", "Bad"} THEN "NowOpening" ELSE "DoNowt"

\* the writes of a state table handler
HandlerOps(handler, state, direction, added) ==
    CASE handler = "SwitchPressed" -> SwitchPressed(state, direction, added)
      [] handler = "NowOpen"       -> SetStateAndDirection("Open", "Up")
      [] handler = "NowClosed"     -> SetStateAndDirection("Closed", "Down")
      [] handler = "NowClosing"    -> SetStateAndDirection("Closing", "Down")
      [] handler = "NowOpening"    -> SetStateAndDirection("Opening", "Up")
      [] OTHER                     -> << >> \* DoNowt

\* the boundary pins raising the door events of the state table
PinEventsBoundaryEdges ==
    {"DoorOpenTrue", "DoorOpenFalse", "DoorClosedTrue", "DoorClosedFalse",
     "SwitchPress", "Nothing"}

\* the events the DoorStatusPin objects hand to DoEvent
PinEvents ==
    { c.m_doorMatchEvent : c \in {c \in PinConfigs : c.m_pDoor # "nullptr"} }
    \cup { c.m_doorUnmatchEvent : c \in {c \in PinConfigs : c.m_pDoor # "nullptr"} }

\* the relay pin of a request
RequestPin(r) ==
    CASE r \in {"LightOn", "LightOff"} -> "light"
      [] r = "CloseDoor" -> "close"
      [] r = "OpenDoor"  -> "open"
      [] r = "StopDoor"  -> "stop"

\* DoRequest recording Stopped for a stop request, as a switch press does
DoRequestOpsStopSetsStopped(r) ==
    ResetTimer("?") \o << Op("On", RequestPin(r)) >>
    \o (IF r = "StopDoor" THEN << Op("SetDoorState", "Stopped") >> ELSE << >>)

\* DoorState::DoRequest (handleRequest): AddCallBack's result is known only
\* when the call is made
DoRequestOps(r) == ResetTimer("?") \o << Op("On", RequestPin(r)) >>

Step(by, d) == [by |-> by, state |-> d.m_currentState, dir |-> d.m_LastDirection]

\* the constructor starting from Stopped instead of Unknown
DoorConstructedStopped(open, closed) ==
    LET d0 == [ m_currentState  |-> "Stopped",
                m_LastDirection |-> "None",
                relay           |-> [r \in Relays |-> FALSE],
                timerCallbacks  |-> 0 ]
    IN  ApplyAll(d0, UpdateStatusWrites(d0.m_currentState, closed, open))

\* DoorState::DoorState with DoorStatusCalc::DoorStatusCalc: all relays off, no
\* timer callback, state Unknown and direction None, then one UpdateStatus
DoorConstructed(open, closed) ==
    LET d0 == [ m_currentState  |-> "Unknown",
                m_LastDirection |-> "None",
                relay           |-> [r \in Relays |-> FALSE],
                timerCallbacks  |-> 0 ]
    IN  ApplyAll(d0, UpdateStatusWrites(d0.m_currentState, closed, open))

DoorInit ==
    \E open \in BOOLEAN, closed \in BOOLEAN :
        /\ door = DoorConstructed(open, closed)
        /\ mainPc = "idle"
        /\ mainOps = << >>
        /\ mainReq = "none"
        /\ bIsOpen = open
        /\ bIsClosed = closed
        /\ updPrior = [state |-> "Unknown", dir |-> "None"]
        /\ lastStep = [by |-> "DoorStatusCalc", state |-> "Unknown", dir |-> "None"]
        /\ mainAlone = TRUE

\* main.cpp loop -> DoorState::UpdateDoorState -> UpdateStatus: the two
\* GetCurrentMatchedState reads
UpdateStatusRead ==
    /\ mainPc = "idle"
    /\ \E open \in BOOLEAN, closed \in BOOLEAN :
          /\ bIsOpen' = open
          /\ bIsClosed' = closed
    /\ mainPc' = "UpdateStatus:branch"
    /\ lastStep' = Step("UpdateStatus", door)
    /\ mainAlone' = TRUE
    /\ UNCHANGED <<door, mainOps, mainReq, updPrior, pinVars, netVars>>

\* UpdateStatus: the if / switch ( GetDoorState () ) that selects the writes
UpdateStatusBranch ==
    /\ mainPc = "UpdateStatus:branch"
    /\ LET ops == UpdateStatusWrites(door.m_currentState, bIsClosed, bIsOpen)
       IN  /\ mainOps' = ops
           /\ mainPc' = IF ops = << >> THEN "idle" ELSE "UpdateStatus:write"
    /\ updPrior' = [state |-> door.m_currentState, dir |-> door.m_LastDirection]
    /\ lastStep' = Step("UpdateStatus", door)
    /\ UNCHANGED <<door, mainReq, bIsOpen, bIsClosed, mainAlone, pinVars, netVars>>

\* UpdateStatus: its next SetDoorState / SetDoorDirection
UpdateStatusWrite ==
    /\ mainPc = "UpdateStatus:write"
    /\ door' = Apply(door, Head(mainOps))
    /\ mainOps' = Tail(mainOps)
    /\ mainPc' = IF Tail(mainOps) = << >> THEN "idle" ELSE "UpdateStatus:write"
    /\ lastStep' = Step("UpdateStatus", door)
    /\ UNCHANGED <<mainReq, bIsOpen, bIsClosed, updPrior, mainAlone, pinVars, netVars>>

\* main.cpp BuildMessage -> DoorState::DoRequest is entered
DoRequest(r) ==
    /\ mainPc = "idle"
    /\ mainReq' = r
    /\ mainOps' = DoRequestOps(r)
    /\ mainPc' = "DoRequest"
    /\ lastStep' = Step("DoRequest", door)
    /\ mainAlone' = TRUE
    /\ UNCHANGED <<door, bIsOpen, bIsClosed, updPrior, pinVars, netVars>>

\* DoRequest: its next timer call or pin write
DoRequestWrite ==
    /\ mainPc = "DoRequest"
    /\ \E added \in {"ok", "failed"} :
          LET o == IF Head(mainOps).op = "AddCallBack"
                   THEN Op("AddCallBack", added) ELSE Head(mainOps)
          IN  door' = Apply(door, o)
    /\ mainOps' = Tail(mainOps)
    /\ mainPc' = IF Tail(mainOps) = << >> THEN "idle" ELSE "DoRequest"
    /\ lastStep' = Step("DoRequest", door)
    /\ UNCHANGED <<mainReq, bIsOpen, bIsClosed, updPrior, mainAlone, pinVars, netVars>>

\* DoorState::DoEvent, called by a DoorStatusPin hook in interrupt context:
\* the whole handler runs before the poll loop continues
DoEvent(event) ==
    /\ \E added \in {"ok", "failed"} :
          LET handler == StateTableFn(door.m_currentState, event)
          IN  /\ door' = ApplyAll(door, HandlerOps(handler, door.m_currentState,
                                                   door.m_LastDirection, added))
              /\ lastStep' = Step(handler, door)
    /\ mainAlone' = FALSE
    /\ UNCHANGED <<mainPc, mainOps, mainReq, bIsOpen, bIsClosed, updPrior, pinVars, netVars>>

\* TheTimer calls the registered DoorState::TurnOffControlPins (interrupt context)
TimerCallBack ==
    /\ door.timerCallbacks > 0
    /\ door' = ApplyAll(door, TurnOffControlPins)
    /\ lastStep' = Step("TurnOffControlPins", door)
    /\ mainAlone' = FALSE
    /\ UNCHANGED <<mainPc, mainOps, mainReq, bIsOpen, bIsClosed, updPrior, pinVars, netVars>>

NextDoor ==
    \/ UpdateStatusRead
    \/ UpdateStatusBranch
    \/ UpdateStatusWrite
    \/ \E r \in Requests : DoRequest(r)
    \/ DoRequestWrite
    \/ \E event \in PinEvents : DoEvent(event)
    \/ TimerCallBack

-----------------------------------------------------------------------------
(* FixedIPList *)

Addresses == EmptyAddress .. MaxAddress

\* FixedIPList::FixedIPList: every slot holds EmptyAddress; slot i of the code
\* is m_pIPList[i + 1] here
FixedIPList ==
    [ m_pIPList |-> [i \in 1..MaxEntries |-> EmptyAddress], m_nextEntry |-> 0 ]

\* a scan that leaves out the last slot
IsPresentSkipsLast(l, addr) == \E i \in 1..(MaxEntries - 1) : l.m_pIPList[i] = addr

\* FixedIPList::IsPresent: scans all m_maxEntries slots
IsPresent(l, addr) == \E i \in 1..MaxEntries : l.m_pIPList[i] = addr

\* making room by giving up the newest entry
MakeRoomDropsNewest(l) == [l EXCEPT !.m_nextEntry = MaxEntries - 1]

\* FixedIPList::Add on a full list: move every entry down one slot, empty
\* the last slot
MakeRoom(l) ==
    [ m_pIPList   |-> [i \in 1..MaxEntries |->
                          IF i < MaxEntries THEN l.m_pIPList[i + 1] ELSE EmptyAddress],
      m_nextEntry |-> MaxEntries - 1 ]

\* FixedIPList::Add: the list after the call
AddTo(l, addition) ==
    IF IsPresent(l, addition) THEN l
    ELSE LET m == IF l.m_nextEntry >= MaxEntries THEN MakeRoom(l) ELSE l
         IN  [ m_pIPList   |-> [m.m_pIPList EXCEPT ![m.m_nextEntry + 1] = addition],
               m_nextEntry |-> m.m_nextEntry + 1 ]

\* FixedIPList::Count
Count(l) == l.m_nextEntry

\* FixedIPList::GetIterator
GetIterator == 0

\* FixedIPList::GetNext: the result and the iterator after the call
GetNext(l, iterator) ==
    IF iterator < l.m_nextEntry
    THEN [Result |-> l.m_pIPList[iterator + 1], iterator |-> iterator + 1]
    ELSE [Result |-> EmptyAddress, iterator |-> iterator]

\* the results of GetNext from `iterator` on, for as long as it advances
RECURSIVE IterateFrom(_, _)
IterateFrom(l, iterator) ==
    LET g == GetNext(l, iterator)
    IN  IF g.iterator = iterator THEN << >>
        ELSE << g.Result >> \o IterateFrom(l, g.iterator)

ListInit ==
    /\ ipList = FixedIPList
    /\ ipCalls = 0
    /\ ipStored = << >>
    /\ ipLast = [called |-> FALSE, addition |-> EmptyAddress, before |-> FixedIPList]

\* UDPWiFiService::Start / GetUDPMessage / ReadUDPMessage call Add
Add(addition) ==
    /\ ipCalls < MaxAdds
    /\ ipList' = AddTo(ipList, addition)
    /\ ipCalls' = ipCalls + 1
    /\ ipStored' = IF ipList' = ipList THEN ipStored ELSE Append(ipStored, addition)
    /\ ipLast' = [called |-> TRUE, addition |-> addition, before |-> ipList]
    /\ UNCHANGED <<pinVars, doorVars, udpVars, svcVars>>

NextList == \E addition \in Addresses : Add(addition)

-----------------------------------------------------------------------------
(* UDPWiFiService::ProcessUDPMessage *)

\* Text is a sequence of characters.
cMsgVersion1       == << "V", "0", "0", "1" >>
TempHumidityReqMsg == << "M", "0", "0", "1" >>
RestartReqMsg      == << "M", "0", "0", "2" >>
DoorStatusReqMsg   == << "M", "0", "0", "3" >>
DoorOpenReqMsg     == << "M", "0", "0", "4" >>
DoorCloseReqMsg    == << "M", "0", "0", "5" >>
DoorStopReqMsg     == << "M", "0", "0", "6" >>
DoorLightOnReqMsg  == << "M", "0", "0", "7" >>
DoorLightOffReqMsg == << "M", "0", "0", "8" >>
PartSeparator      == << ":" >>

\* sizeof of a char array: its characters and the terminating NUL
sizeof(text) == Len(text) + 1

\* String::startsWith ( prefix )
startsWith(text, prefix) ==
    /\ Len(prefix) <= Len(text)
    /\ SubSeq(text, 1, Len(prefix)) = prefix

\* String::substring ( left ): the characters from index left (0-based) on
substring(text, left) ==
    IF left >= Len(text) THEN << >> ELSE SubSeq(text, left + 1, Len(text))

\* the tag compared one character further on
TagOffsetAfterNul == sizeof(cMsgVersion1) + sizeof(PartSeparator) - 1

\* the index the command tag is compared at
TagOffset == sizeof(cMsgVersion1) + sizeof(PartSeparator) - 2

\* what one call of ProcessUDPMessage does
Outcome(callbacks, reset, badRequests, badVersion) ==
    [ callbacks |-> callbacks, reset |-> reset,
      badRequests |-> badRequests, badVersion |-> badVersion ]

\* an unknown request counted as an unknown version as well
UnknownRequestCountsBoth == Outcome(<< >>, FALSE, 1, 1)

\* ProcessUDPMessage's inner else: m_ulBadRequests++
UnknownRequest == Outcome(<< >>, FALSE, 1, 0)

\* an unknown version counted as an unknown request
UnknownVersionAsRequest == Outcome(<< >>, FALSE, 1, 0)

\* ProcessUDPMessage's outer else: m_ulBadMgsVersion++
UnknownVersion == Outcome(<< >>, FALSE, 0, 1)

\* ProcessUDPMessage comparing the separator along with the version
ProcessUDPMessageWithSeparator(sRecvMessage) ==
    IF startsWith(sRecvMessage, cMsgVersion1 \o PartSeparator)
    THEN LET tag == substring(sRecvMessage, TagOffset)
         IN  IF startsWith(tag, TempHumidityReqMsg)
                  THEN Outcome(<< "TEMPDATA" >>, FALSE, 0, 0)
             ELSE IF startsWith(tag, RestartReqMsg)
                  THEN Outcome(<< >>, TRUE, 0, 0)
             ELSE IF startsWith(tag, DoorStatusReqMsg)
                  THEN Outcome(<< "DOORDATA" >>, FALSE, 0, 0)
             ELSE IF startsWith(tag, DoorOpenReqMsg)
                  THEN Outcome(<< "DOOROPEN" >>, FALSE, 0, 0)
             ELSE IF startsWith(tag, DoorCloseReqMsg)
                  THEN Outcome(<< "DOORCLOSE" >>, FALSE, 0, 0)
             ELSE IF startsWith(tag, DoorStopReqMsg)
                  THEN Outcome(<< "DOORSTOP" >>, FALSE, 0, 0)
             ELSE IF startsWith(tag, DoorLightOnReqMsg)
                  THEN Outcome(<< "LIGHTON" >>, FALSE, 0, 0)
             ELSE IF startsWith(tag, DoorLightOffReqMsg)
                  THEN Outcome(<< "LIGHTOFF" >>, FALSE, 0, 0)
             ELSE UnknownRequest
    ELSE UnknownVersion

\* UDPWiFiService::ProcessUDPMessage: the calls of m_MsgHandlerCallback, whether
\* ResetBoard is called, and the increments of the two error counters
ProcessUDPMessage(sRecvMessage) ==
    IF startsWith(sRecvMessage, cMsgVersion1)
    THEN LET tag == substring(sRecvMessage, TagOffset)
         IN  IF startsWith(tag, TempHumidityReqMsg)
                  THEN Outcome(<< "TEMPDATA" >>, FALSE, 0, 0)
             ELSE IF startsWith(tag, RestartReqMsg)
                  THEN Outcome(<< >>, TRUE, 0, 0)
             ELSE IF startsWith(tag, DoorStatusReqMsg)
                  THEN Outcome(<< "DOORDATA" >>, FALSE, 0, 0)
             ELSE IF startsWith(tag, DoorOpenReqMsg)
                  THEN Outcome(<< "DOOROPEN" >>, FALSE, 0, 0)
             ELSE IF startsWith(tag, DoorCloseReqMsg)
                  THEN Outcome(<< "DOORCLOSE" >>, FALSE, 0, 0)
             ELSE IF startsWith(tag, DoorStopReqMsg)
                  THEN Outcome(<< "DOORSTOP" >>, FALSE, 0, 0)
             ELSE IF startsWith(tag, DoorLightOnReqMsg)
                  THEN Outcome(<< "LIGHTON" >>, FALSE, 0, 0)
             ELSE IF startsWith(tag, DoorLightOffReqMsg)
                  THEN Outcome(<< "LIGHTOFF" >>, FALSE, 0, 0)
             ELSE UnknownRequest
    ELSE UnknownVersion

\* the UDPWiFiService members as declared
UDPWiFiService == [ m_ulBadRequests |-> 0, m_ulBadMgsVersion |-> 0 ]

\* the inbound messages tried: a version, a separator, a tag
Versions == { cMsgVersion1, << "V", "0", "0", "2" >> }
Separators == { PartSeparator, << ";" >> }
Tags ==
    { TempHumidityReqMsg, RestartReqMsg, DoorStatusReqMsg, DoorOpenReqMsg,
      DoorCloseReqMsg, DoorStopReqMsg, DoorLightOnReqMsg, DoorLightOffReqMsg,
      << "M", "9", "9", "9" >>, << "M", "0", "0" >>, DoorStatusReqMsg \o << "9" >>,
      DoorOpenReqMsg \o << ":", "x" >>, RestartReqMsg \o << "M", "0", "0", "3" >> }
Messages == { v \o p \o t : v \in Versions, p \in Separators, t \in Tags }

UdpInit ==
    /\ udp = UDPWiFiService
    /\ udpMsgs = 0
    /\ udpLast = [ processed |-> FALSE, msg |-> << >>, callbacks |-> << >>,
                   reset |-> FALSE, before |-> UDPWiFiService ]

\* UDPWiFiService::CheckUDP hands a received message to ProcessUDPMessage;
\* NVIC_SystemReset restarts the program, which constructs the service anew
CheckUDP(Msg) ==
    /\ udpMsgs < MaxMsgs
    /\ LET o == ProcessUDPMessage(Msg)
       IN  /\ udp' = IF o.reset THEN UDPWiFiService
                     ELSE [ m_ulBadRequests   |-> udp.m_ulBadRequests + o.badRequests,
                            m_ulBadMgsVersion |-> udp.m_ulBadMgsVersion + o.badVersion ]
           /\ udpLast' = [ processed |-> TRUE, msg |-> Msg, callbacks |-> o.callbacks,
                           reset |-> o.reset, before |-> udp ]
    /\ udpMsgs' = udpMsgs + 1
    /\ UNCHANGED <<pinVars, doorVars, listVars, svcVars>>

NextUdp == \E Msg \in Messages : CheckUDP(Msg)

-----------------------------------------------------------------------------
(* WiFiService, UDPWiFiService: connection state *)

\* the multicast address of the service's own subnet, m_multicastAddr
MyMulticast == MaxAddress

\* the multicast addresses CalcMulticastAddress derives from a sender's
\* address: that of the service's own subnet, or that of another subnet.
\* ( ip & mask ) | ( ~mask ) is never 0.0.0.0
SenderMulticasts == { MyMulticast, MaxAddress - 1 }

\* the object after UDPWiFiService::Begin. "connected": configuration loaded,
\* WiFiConnect succeeded, Start has begun m_myUDP. "apNoConfig",
\* "apConnectFailed": StartAP has been called.
Begun(outcome) ==
    [ m_State            |-> IF outcome = "connected" THEN "CONNECTED" ELSE "AP_MODE",
      m_beginTimeouts    |-> IF outcome = "apConnectFailed" THEN 1 ELSE 0,
      m_beginConnects    |-> IF outcome = "connected" THEN 1 ELSE 0,
      m_ulReplyCount     |-> 0,
      m_ulMCastSentCount |-> 0,
      m_ulReqCount       |-> 0,
      m_myUDP            |-> IF outcome = "connected" THEN "begun" ELSE "idle",
      m_SSID             |-> IF outcome = "apNoConfig" THEN "none" ELSE "stored" ]

BeginOutcomes == { "connected", "apNoConfig", "apConnectFailed" }

\* UDPWiFiService::Start: the list after Begin
BegunList(outcome) ==
    IF outcome = "connected" THEN AddTo(FixedIPList, MyMulticast) ELSE FixedIPList

\* WiFiConnect whose failure is not counted
WiFiConnectUncounted(s, w, connects) ==
    IF w
    THEN [ svc |-> s, wl |-> w, bResult |-> TRUE, attempted |-> FALSE ]
    ELSE IF connects
    THEN [ svc |-> [s EXCEPT !.m_State = "CONNECTED", !.m_beginConnects = @ + 1],
           wl |-> TRUE, bResult |-> TRUE, attempted |-> TRUE ]
    ELSE [ svc |-> [s EXCEPT !.m_State = "UNCONNECTED"],
           wl |-> FALSE, bResult |-> FALSE, attempted |-> TRUE ]

\* WiFiService::WiFiConnect; `connects` is whether WiFi.begin reaches
\* WL_CONNECTED within WIFI_CONNECT_TIMEOUT_MS
WiFiConnect(s, w, connects) ==
    IF w
    THEN [ svc |-> s, wl |-> w, bResult |-> TRUE, attempted |-> FALSE ]
    ELSE IF connects
    THEN [ svc |-> [s EXCEPT !.m_State = "CONNECTED", !.m_beginConnects = @ + 1],
           wl |-> TRUE, bResult |-> TRUE, attempted |-> TRUE ]
    ELSE [ svc |-> [s EXCEPT !.m_State = "UNCONNECTED", !.m_beginTimeouts = @ + 1],
           wl |-> FALSE, bResult |-> FALSE, attempted |-> TRUE ]

\* the outcomes of sending one datagram: beginPacket fails, endPacket fails,
\* both succeed
SendOutcomes == { "beginFail", "endFail", "sent" }

\* the running state of a send: service object, radio, result, datagrams sent
\* (their destinations), whether a send failed
Sending(s, w) ==
    [ svc |-> s, wl |-> w, bResult |-> FALSE, sent |-> << >>, failed |-> FALSE ]

\* UDPWiFiService::SendReply after WiFiConnect, for a message that is not empty
SendReplyBody(x, outcome) ==
    CASE outcome = "sent" ->
            [x EXCEPT !.svc.m_ulReplyCount = @ + 1, !.svc.m_State = "CONNECTED",
                      !.bResult = TRUE, !.sent = Append(@, "remoteIP")]
      [] outcome = "endFail" ->     \* WiFiDisconnect
            [x EXCEPT !.svc.m_State = "UNCONNECTED", !.wl = FALSE, !.failed = TRUE]
      [] OTHER -> [x EXCEPT !.failed = TRUE]

\* one turn of UDPWiFiService::SendAll's loop
SendOne(x, dest, outcome) ==
    CASE outcome = "sent" ->
            [x EXCEPT !.svc.m_ulMCastSentCount = @ + 1, !.svc.m_State = "CONNECTED",
                      !.bResult = TRUE, !.sent = Append(@, dest)]
      [] outcome = "endFail" ->     \* WiFiDisconnect
            [x EXCEPT !.svc.m_State = "UNCONNECTED", !.wl = FALSE, !.failed = TRUE]
      [] OTHER -> [x EXCEPT !.failed = TRUE]

\* SendAll's loop from `iterator` on: it ends at the first GetNext result
\* that is EmptyAddress
RECURSIVE SendLoop(_, _, _, _)
SendLoop(x, l, iterator, outcomes) ==
    LET g == GetNext(l, iterator)
    IN  IF g.Result = EmptyAddress THEN x
        ELSE SendLoop(SendOne(x, g.Result, outcomes[g.iterator]), l, g.iterator, outcomes)

\* WiFi.begin is called only with the radio down: one value stands for the
\* outcome of a connect that is never made. With no stored configuration
\* there is no network name to connect to.
Asked(connects) ==
    /\ wl => connects
    /\ (~wl /\ svc.m_SSID = "none") => ~connects

\* the history of a list after Add (addition)
StoredAfter(l, stored, addition) ==
    IF AddTo(l, addition) = l THEN stored ELSE Append(stored, addition)

\* the UDPWiFiService object as constructed, Begin not yet called
WiFiServiceConstructed ==
    [ m_State            |-> "UNCONNECTED",
      m_beginTimeouts    |-> 0,
      m_beginConnects    |-> 0,
      m_ulReplyCount     |-> 0,
      m_ulMCastSentCount |-> 0,
      m_ulReqCount       |-> 0,
      m_myUDP            |-> "idle",
      m_SSID             |-> "none" ]

NoOperation ==
    [ op |-> "none", empty |-> FALSE, connect |-> "notNeeded", began |-> FALSE,
      bResult |-> FALSE, sent |-> << >>, failed |-> FALSE,
      stateBefore |-> "UNCONNECTED", packetSize |-> 0, packet |-> "none" ]

\* what a call of WiFiConnect did
Attempt(c) ==
    IF ~c.attempted THEN "notNeeded" ELSE IF c.bResult THEN "connected" ELSE "failed"

\* the history entry of an operation made in the present state
Operation(op, empty, connect, bResult, sent, failed) ==
    [ op |-> op, empty |-> empty, connect |-> connect, began |-> FALSE,
      bResult |-> bResult, sent |-> sent, failed |-> failed,
      stateBefore |-> svc.m_State, packetSize |-> 0, packet |-> "none" ]

\* loop's statics as initialised
LoopStatics == [ LastDoorState |-> "Unknown", LastLightState |-> FALSE ]

\* the service constructed, Begin not yet called
SvcConstructed ==
    /\ svc = WiFiServiceConstructed
    /\ wl = FALSE
    /\ lastNews = LoopStatics
    /\ svcOps = 0
    /\ svcLast = NoOperation

\* setup has run: UDPWiFiService::Begin has returned
SvcInit ==
    \E outcome \in BeginOutcomes :
        /\ svc = Begun(outcome)
        /\ wl = (outcome = "connected")
        /\ ipList = BegunList(outcome)
        /\ ipStored = StoredAfter(FixedIPList, << >>, IF outcome = "connected" THEN MyMulticast ELSE EmptyAddress)
        /\ ipCalls = 0
        /\ ipLast = [called |-> FALSE, addition |-> EmptyAddress, before |-> FixedIPList]
        /\ lastNews = LoopStatics
        /\ svcOps = 0
        /\ svcLast = NoOperation

\* ReadUDPMessage: packetSize < sizeof ( sBuffer ) - 1
PacketFits(packetSize) == packetSize < MAX_INCOMING_UDP_MSG - 1

\* ReadUDPMessage: what becomes of a packet of packetSize bytes (0: none is
\* waiting); `readOk` is whether m_myUDP.read returns a length >= 0
ReadPacket(packetSize, readOk) ==
    IF packetSize = 0 THEN "none"
    ELSE IF PacketFits(packetSize)
         THEN IF readOk THEN "read" ELSE "readFailed"
         ELSE "tooBig"

\* the packet sizes tried: none, the shortest, and those around the buffer's size
PacketSizes ==
    { 0, 1, MAX_INCOMING_UDP_MSG - 2, MAX_INCOMING_UDP_MSG - 1,
      MAX_INCOMING_UDP_MSG, MAX_INCOMING_UDP_MSG + 1 }

\* UDPWiFiService::GetUDPMessage with ReadUDPMessage, as CheckUDP calls it.
\* `packetSize` is what parsePacket returns, `sender` the multicast address
\* derived from the packet's source.
GetUDPMessage(connects, packetSize, readOk, sender) ==
    LET c  == WiFiConnect(svc, wl, connects)
        l1 == AddTo(ipList, MyMulticast)
        s1 == StoredAfter(ipList, ipStored, MyMulticast)
        packet == ReadPacket(packetSize, readOk)
        fits == packet \in { "read", "readFailed" }
    IN  /\ svcOps < MaxNetOps
        /\ Asked(connects)
        /\ (~c.bResult \/ ~fits) => (sender = MyMulticast /\ readOk)
        /\ ~c.bResult => packetSize = 0
        /\ svcOps' = svcOps + 1
        /\ wl' = c.wl
        /\ svc' = IF c.bResult /\ packet = "read"
                  THEN [c.svc EXCEPT !.m_ulReqCount = @ + 1]
                  ELSE c.svc
        /\ ipList' = IF ~c.bResult THEN ipList
                     ELSE IF fits THEN AddTo(l1, sender) ELSE l1
        /\ ipStored' = IF ~c.bResult THEN ipStored
                       ELSE IF fits THEN StoredAfter(l1, s1, sender) ELSE s1
        /\ udp' = IF c.bResult /\ packet = "tooBig"
                  THEN [udp EXCEPT !.m_ulBadRequests = @ + 1]
                  ELSE udp
        /\ svcLast' = [ Operation("GetUDPMessage", FALSE, Attempt(c),
                                  c.bResult /\ packet = "read", << >>, FALSE)
                        EXCEPT !.packetSize = packetSize, !.packet = packet ]
        /\ UNCHANGED <<pinVars, doorVars, ipCalls, ipLast, udpMsgs, udpLast, lastNews>>

\* UDPWiFiService::SendReply; `empty` is sMsg.length () == 0
SendReply(empty, connects, outcome) ==
    LET c == WiFiConnect(svc, wl, connects)
        x == IF c.bResult /\ ~empty
             THEN SendReplyBody(Sending(c.svc, c.wl), outcome)
             ELSE Sending(c.svc, c.wl)
    IN  /\ svcOps < MaxNetOps
        /\ Asked(connects)
        /\ (empty \/ ~c.bResult) => outcome = "sent"
        /\ svcOps' = svcOps + 1
        /\ svc' = x.svc
        /\ wl' = x.wl
        /\ svcLast' = Operation("SendReply", empty, Attempt(c), x.bResult, x.sent, x.failed)
        /\ UNCHANGED <<pinVars, doorVars, listVars, udpVars, lastNews>>

\* SendAll without the test of the message's length
SendAllBodyUnchecked(empty, connects, outcomes) ==
    LET c == WiFiConnect(svc, wl, connects)
    IN  IF c.bResult
        THEN [ c |-> c, x |-> SendLoop(Sending(c.svc, c.wl), ipList, GetIterator, outcomes) ]
        ELSE [ c |-> c, x |-> Sending(c.svc, c.wl) ]

\* UDPWiFiService::SendAll; outcomes[i] is the outcome of the send to the
\* i-th entry of the list
SendAllBody(empty, connects, outcomes) ==
    LET c == WiFiConnect(svc, wl, connects)
    IN  IF c.bResult /\ ~empty
        THEN [ c |-> c, x |-> SendLoop(Sending(c.svc, c.wl), ipList, GetIterator, outcomes) ]
        ELSE [ c |-> c, x |-> Sending(c.svc, c.wl) ]

\* no send is made past the end of the list, nor after a connect that
\* failed: one value stands for the outcomes that are never looked at
PastTheList(connects, outcomes) ==
    \A i \in 1..MaxEntries :
        (i > Count(ipList) \/ (~wl /\ ~connects)) => outcomes[i] = "sent"

SendAll(empty, connects, outcomes) ==
    LET r == SendAllBody(empty, connects, outcomes)
    IN  /\ svcOps < MaxNetOps
        /\ PastTheList(connects, outcomes)
        /\ Asked(connects)
        /\ empty => \A i \in 1..MaxEntries : outcomes[i] = "sent"
        /\ svcOps' = svcOps + 1
        /\ svc' = r.x.svc
        /\ wl' = r.x.wl
        /\ svcLast' = Operation("SendAll", empty, Attempt(r.c), r.x.bResult, r.x.sent, r.x.failed)
        /\ UNCHANGED <<pinVars, doorVars, listVars, udpVars, lastNews>>

\* loop: the door state or the light differs from what was last multicast;
\* MulticastMsg (DOORDATA) builds a message that is not empty and calls SendAll
DoorNews(state, lit, connects, outcomes) ==
    LET r == SendAllBody(FALSE, connects, outcomes)
    IN  /\ svcOps < MaxNetOps
        /\ PastTheList(connects, outcomes)
        /\ Asked(connects)
        /\ state # lastNews.LastDoorState \/ lit # lastNews.LastLightState
        /\ lastNews' = [ LastDoorState |-> state, LastLightState |-> lit ]
        /\ svcOps' = svcOps + 1
        /\ svc' = r.x.svc
        /\ wl' = r.x.wl
        /\ svcLast' = Operation("DoorNews", FALSE, Attempt(r.c), r.x.bResult, r.x.sent, r.x.failed)
        /\ UNCHANGED <<pinVars, doorVars, listVars, udpVars>>

\* the access point or the radio link goes away
LoseConnection ==
    /\ wl
    /\ wl' = FALSE
    /\ UNCHANGED <<pinVars, doorVars, listVars, udpVars, svc, lastNews, svcOps, svcLast>>

\* OnboardingServer saves a configuration and calls ResetBoard: the program
\* starts again and Begin runs
OnboardingSaved(outcome) ==
    /\ svcOps < MaxNetOps
    /\ svc.m_State = "AP_MODE"
    /\ svcOps' = svcOps + 1
    /\ svc' = Begun(outcome)
    /\ wl' = (outcome = "connected")
    /\ ipList' = BegunList(outcome)
    /\ ipStored' = StoredAfter(FixedIPList, << >>, IF outcome = "connected" THEN MyMulticast ELSE EmptyAddress)
    /\ lastNews' = LoopStatics
    /\ svcLast' = [ Operation("Begin", FALSE,
                               CASE outcome = "connected" -> "connected"
                                 [] outcome = "apConnectFailed" -> "failed"
                                 [] OTHER -> "notNeeded",
                               outcome = "connected", << >>, FALSE)
                     EXCEPT !.began = (outcome = "connected") ]
    /\ UNCHANGED <<pinVars, doorVars, ipCalls, ipLast, udpVars>>

\* the door states loop gets to report
ReportedStates == { "Closed", "Opening" }

NextNet ==
    \/ \E connects \in BOOLEAN, packetSize \in PacketSizes, readOk \in BOOLEAN,
          sender \in SenderMulticasts :
            GetUDPMessage(connects, packetSize, readOk, sender)
    \/ \E empty \in BOOLEAN, connects \in BOOLEAN, outcome \in SendOutcomes :
            SendReply(empty, connects, outcome)
    \/ \E empty \in BOOLEAN, connects \in BOOLEAN, outcomes \in [1..MaxEntries -> SendOutcomes] :
            SendAll(empty, connects, outcomes)
    \/ \E state \in ReportedStates, lit \in BOOLEAN, connects \in BOOLEAN, outcomes \in [1..MaxEntries -> SendOutcomes] :
            DoorNews(state, lit, connects, outcomes)
    \/ LoseConnection
    \/ \E outcome \in BeginOutcomes : OnboardingSaved(outcome)

-----------------------------------------------------------------------------
(* Specifications *)

\* one InputPin and its interrupt notifications; the door controller is left
\* as constructed on a door in mid travel
InitPin ==
    /\ PinInit
    /\ door = DoorConstructed(FALSE, FALSE)
    /\ mainPc = "idle"
    /\ mainOps = << >>
    /\ mainReq = "none"
    /\ bIsOpen = FALSE
    /\ bIsClosed = FALSE
    /\ updPrior = [state |-> "Unknown", dir |-> "None"]
    /\ lastStep = [by |-> "DoorStatusCalc", state |-> "Unknown", dir |-> "None"]
    /\ mainAlone = TRUE
    /\ ListInit
    /\ UdpInit
    /\ SvcConstructed

SpecPin == InitPin /\ [][NextPin]_vars

\* the door controller: poll loop, switch and timer interrupts; the pin object
\* is left as the switch pin constructed on a released switch
InitDoor ==
    /\ DoorInit
    /\ pin = InputPinInit(CHOOSE c \in PinConfigs : c.name = "switch", "LOW", 10)
    /\ nowMs = 10
    /\ newReading = "LOW"
    /\ isrBranch = "none"
    /\ isrElapsed = 0
    /\ hooks = [MatchAction |-> 0, UnmatchAction |-> 0, event |-> "none"]
    /\ firstRead = "LOW"
    /\ ListInit
    /\ UdpInit
    /\ SvcConstructed

SpecDoor == InitDoor /\ [][NextDoor]_vars

\* the door controller with the poll loop and the timer kept running: loop
\* is called again and again, a call in progress continues, and TheTimer
\* calls a registered callback when its time is up. Requests, pin events and
\* switch presses may or may not come.
SpecDoorFair ==
    /\ InitDoor
    /\ [][NextDoor]_vars
    /\ WF_vars(UpdateStatusRead)
    /\ WF_vars(UpdateStatusBranch)
    /\ WF_vars(UpdateStatusWrite)
    /\ WF_vars(DoRequestWrite)
    /\ WF_vars(TimerCallBack)

\* the multicast destination list; pin and door controller left as constructed
InitList ==
    /\ ListInit
    /\ UdpInit
    /\ pin = InputPinInit(CHOOSE c \in PinConfigs : c.name = "switch", "LOW", 10)
    /\ nowMs = 10
    /\ newReading = "LOW"
    /\ isrBranch = "none"
    /\ isrElapsed = 0
    /\ hooks = [MatchAction |-> 0, UnmatchAction |-> 0, event |-> "none"]
    /\ firstRead = "LOW"
    /\ door = DoorConstructed(FALSE, FALSE)
    /\ mainPc = "idle"
    /\ mainOps = << >>
    /\ mainReq = "none"
    /\ bIsOpen = FALSE
    /\ bIsClosed = FALSE
    /\ updPrior = [state |-> "Unknown", dir |-> "None"]
    /\ lastStep = [by |-> "DoorStatusCalc", state |-> "Unknown", dir |-> "None"]
    /\ mainAlone = TRUE
    /\ SvcConstructed

SpecList == InitList /\ [][NextList]_vars

\* the message decoder; pin, door controller and list left as constructed
InitUdp ==
    /\ UdpInit
    /\ ListInit
    /\ pin = InputPinInit(CHOOSE c \in PinConfigs : c.name = "switch", "LOW", 10)
    /\ nowMs = 10
    /\ newReading = "LOW"
    /\ isrBranch = "none"
    /\ isrElapsed = 0
    /\ hooks = [MatchAction |-> 0, UnmatchAction |-> 0, event |-> "none"]
    /\ firstRead = "LOW"
    /\ door = DoorConstructed(FALSE, FALSE)
    /\ mainPc = "idle"
    /\ mainOps = << >>
    /\ mainReq = "none"
    /\ bIsOpen = FALSE
    /\ bIsClosed = FALSE
    /\ updPrior = [state |-> "Unknown", dir |-> "None"]
    /\ lastStep = [by |-> "DoorStatusCalc", state |-> "Unknown", dir |-> "None"]
    /\ mainAlone = TRUE
    /\ SvcConstructed

SpecUdp == InitUdp /\ [][NextUdp]_vars

\* the network service after setup; pin, door controller and decoder left as
\* constructed
InitNet ==
    /\ SvcInit
    /\ UdpInit
    /\ pin = InputPinInit(CHOOSE c \in PinConfigs : c.name = "switch", "LOW", 10)
    /\ nowMs = 10
    /\ newReading = "LOW"
    /\ isrBranch = "none"
    /\ isrElapsed = 0
    /\ hooks = [MatchAction |-> 0, UnmatchAction |-> 0, event |-> "none"]
    /\ firstRead = "LOW"
    /\ door = DoorConstructed(FALSE, FALSE)
    /\ mainPc = "idle"
    /\ mainOps = << >>
    /\ mainReq = "none"
    /\ bIsOpen = FALSE
    /\ bIsClosed = FALSE
    /\ updPrior = [state |-> "Unknown", dir |-> "None"]
    /\ lastStep = [by |-> "DoorStatusCalc", state |-> "Unknown", dir |-> "None"]
    /\ mainAlone = TRUE

SpecNet == InitNet /\ [][NextNet]_vars

Init == PinInit /\ DoorInit /\ UdpInit /\ SvcInit

Next == NextPin \/ NextDoor \/ NextList \/ NextUdp \/ NextNet

Spec == Init /\ [][Next]_vars

-----------------------------------------------------------------------------
(* Claims about InputPin (checked under SpecPin) *)

Classified(p) == p.m_MatchedCount + p.m_UnmatchedCount + p.m_SpuriousCount

\* exactly one of the four classification counters went up by one
OneCounterUp(p, q) ==
    /\ q.m_DiscardedUnchangedCount + Classified(q)
         = p.m_DiscardedUnchangedCount + Classified(p) + 1
    /\ q.m_DiscardedUnchangedCount >= p.m_DiscardedUnchangedCount
    /\ q.m_MatchedCount >= p.m_MatchedCount
    /\ q.m_UnmatchedCount >= p.m_UnmatchedCount
    /\ q.m_SpuriousCount >= p.m_SpuriousCount

\* C1: every notification increments the invoked counter once and exactly one
\* of discardedUnchanged, matched, unmatched, spurious; so matched + unmatched +
\* spurious <= invoked always; a repeat notification (reading equal to the last
\* recorded reading) changes only invoked and discardedUnchanged.
C1_ClassifiedExactlyOnce ==
    /\ [](Classified(pin) <= pin.m_ISRCalledCount)
    /\ [][ /\ pin'.m_ISRCalledCount = pin.m_ISRCalledCount + 1
           /\ OneCounterUp(pin, pin')
           /\ (newReading' = pin.m_LastPinRead =>
                 /\ pin' = [pin EXCEPT !.m_ISRCalledCount = @ + 1,
                                       !.m_DiscardedUnchangedCount = @ + 1]
                 /\ hooks' = [hooks EXCEPT !.event = "none"]) ]_vars

\* C1 witness: a repeat notification was discarded after a match, an unmatch
\* and a spurious transition had each been counted.
C1_Witness ==
    /\ isrBranch = "repeat"
    /\ pin.m_DiscardedUnchangedCount > 0
    /\ pin.m_MatchedCount > 0
    /\ pin.m_UnmatchedCount > 0
    /\ pin.m_SpuriousCount > 0

MatchedMinusUnmatched == pin.m_MatchedCount - pin.m_UnmatchedCount

\* C2 as stated: matched - unmatched is 0 or 1 at every point.
C2_Original == MatchedMinusUnmatched \in {0, 1}

\* C2 amended: matched - unmatched is 0 or 1 as long as the line read inactive
\* at construction and no transition has been rejected as spurious; in general
\* it differs from 0 by at most 1 + spurious.
C2_MatchBalance ==
    /\ (pin.m_SpuriousCount = 0 /\ firstRead # pin.cfg.m_MatchStatus)
          => MatchedMinusUnmatched \in {0, 1}
    /\ MatchedMinusUnmatched <= 1 + pin.m_SpuriousCount
    /\ MatchedMinusUnmatched >= 0 - (1 + pin.m_SpuriousCount)

\* C2 witness: two matches counted with no unmatch between them (a spurious
\* rejection separates them).
C2_Witness ==
    /\ pin.m_MatchedCount = 2
    /\ pin.m_UnmatchedCount = 0
    /\ pin.m_SpuriousCount = 1

\* C3: a level-changing transition less than the debounce interval after the
\* previous recorded transition is counted spurious, leaves the debounced
\* matched flag alone and calls neither hook.
C3_FastTransitionSpurious ==
    [][ ( /\ pin'.m_ISRCalledCount = pin.m_ISRCalledCount + 1
          /\ newReading' # pin.m_LastPinRead
          /\ Elapsed(nowMs', pin.m_LastChangedTime) < pin.cfg.m_Debouncems )
        => /\ pin'.m_SpuriousCount = pin.m_SpuriousCount + 1
           /\ pin'.m_MatchedCount = pin.m_MatchedCount
           /\ pin'.m_UnmatchedCount = pin.m_UnmatchedCount
           /\ pin'.m_CurrentMatchedState = pin.m_CurrentMatchedState
           /\ hooks'.MatchAction = hooks.MatchAction
           /\ hooks'.UnmatchAction = hooks.UnmatchAction
           /\ hooks'.event = "none" ]_vars

\* C3 witness: a transition leaving the matched level one millisecond short of
\* the debounce interval was rejected while the matched flag was true, after an
\* earlier rejection.
C3_Witness ==
    /\ isrBranch = "spuriousUnmatch"
    /\ isrElapsed = pin.cfg.m_Debouncems - 1
    /\ pin.m_CurrentMatchedState
    /\ pin.m_SpuriousCount >= 2

\* C4: with a nonzero maximum matched time, a leave-matched transition whose
\* elapsed time is at least that maximum calls no unmatch hook, is not counted
\* as unmatched and is counted as spurious.
C4_LongMatchSpurious ==
    [][ ( /\ pin'.m_ISRCalledCount = pin.m_ISRCalledCount + 1
          /\ pin.cfg.m_maxMatchedTimems # 0
          /\ newReading' # pin.m_LastPinRead
          /\ newReading' # pin.cfg.m_MatchStatus
          /\ Elapsed(nowMs', pin.m_LastChangedTime) >= pin.cfg.m_maxMatchedTimems )
        => /\ hooks'.UnmatchAction = hooks.UnmatchAction
           /\ hooks'.event = "none"
           /\ pin'.m_UnmatchedCount = pin.m_UnmatchedCount
           /\ pin'.m_SpuriousCount = pin.m_SpuriousCount + 1 ]_vars

\* C4 witness: a leave-matched transition arrived exactly the maximum matched
\* time after an accepted match and was counted spurious.
C4_Witness ==
    /\ isrBranch = "spuriousLong"
    /\ isrElapsed = pin.cfg.m_maxMatchedTimems
    /\ pin.m_MatchedCount > 0
    /\ pin.m_SpuriousCount > 0

-----------------------------------------------------------------------------
(* Claims about the door controller (checked under SpecDoor) *)

\* the step in which a call of UpdateStatus returns
UpdateStatusReturns ==
    /\ mainPc \in {"UpdateStatus:branch", "UpdateStatus:write"}
    /\ mainPc' = "idle"

StateDir(d) == <<d.m_currentState, d.m_LastDirection>>

OnlyRelay(d, r) == \A x \in Relays : d.relay[x] = (x = r)

\* C5: an update that read both sensors matched ends in (Bad, None), one that
\* read only the open sensor matched in (Open, None), one that read only the
\* closed sensor matched in (Closed, None), whatever the state and direction before.
C5_TerminalReadings ==
    [][ UpdateStatusReturns =>
          /\ (bIsOpen /\ bIsClosed)  => StateDir(door') = <<"Bad", "None">>
          /\ (bIsOpen /\ ~bIsClosed) => StateDir(door') = <<"Open", "None">>
          /\ (~bIsOpen /\ bIsClosed) => StateDir(door') = <<"Closed", "None">> ]_vars

\* C5 witness: an update that found (Closing, Down) and read both sensors
\* matched has returned and left (Bad, None).
C5_Witness ==
    /\ mainPc = "idle"
    /\ lastStep.by = "UpdateStatus"
    /\ bIsOpen /\ bIsClosed
    /\ updPrior = [state |-> "Closing", dir |-> "Down"]
    /\ StateDir(door) = <<"Bad", "None">>

\* C6: an update that read both sensors unmatched ends in (Closing, Down) from
\* Open, (Opening, Up) from Closed, (Unknown, None) from Bad, and in the state
\* and direction it found from Stopped, Opening, Closing and Unknown.
C6_BothUnmatched ==
    [][ (UpdateStatusReturns /\ ~bIsOpen /\ ~bIsClosed) =>
          StateDir(door') =
             CASE updPrior'.state = "Open"   -> <<"Closing", "Down">>
               [] updPrior'.state = "Closed" -> <<"Opening", "Up">>
               [] updPrior'.state = "Bad"    -> <<"Unknown", "None">>
               [] OTHER -> <<updPrior'.state, updPrior'.dir>> ]_vars

\* C6 witness: an update that found Open and read both sensors unmatched has
\* returned and left (Closing, Down).
C6_Witness ==
    /\ mainPc = "idle"
    /\ lastStep.by = "UpdateStatus"
    /\ ~bIsOpen /\ ~bIsClosed
    /\ updPrior.state = "Open"
    /\ StateDir(door) = <<"Closing", "Down">>

\* C7 as stated: after construction the state is Stopped when both sensors are
\* matched or both unmatched, and Open or Closed when exactly one is.
C7_Original ==
    lastStep.by = "DoorStatusCalc" =>
        door.m_currentState =
            IF bIsOpen = bIsClosed THEN "Stopped"
            ELSE IF bIsOpen THEN "Open" ELSE "Closed"

\* C7 amended: after construction the state is Bad when both sensors are
\* matched, Unknown when both are unmatched, Open or Closed when exactly one
\* is matched; the direction is None in every case.
C7_InitialState ==
    lastStep.by = "DoorStatusCalc" =>
        StateDir(door) =
            << IF bIsOpen /\ bIsClosed THEN "Bad"
               ELSE IF bIsOpen THEN "Open"
               ELSE IF bIsClosed THEN "Closed"
               ELSE "Unknown",
               "None" >>

\* C7 witness: the controller as constructed on a door in mid travel.
C7_Witness ==
    /\ lastStep.by = "DoorStatusCalc"
    /\ ~bIsOpen /\ ~bIsClosed
    /\ door.m_currentState = "Unknown"

TerminalImpliesNoDirection ==
    door.m_currentState \in {"Open", "Closed"} => door.m_LastDirection = "None"

\* C8 as stated: in every reachable state, those an interrupt can observe in
\* the middle of an update included, Open or Closed implies direction None.
C8_Original == TerminalImpliesNoDirection

\* C8 amended: Open or Closed implies direction None in every state in which
\* UpdateStatus is not between its two writes (it writes the state first).
C8_TerminalNoDirection ==
    mainPc # "UpdateStatus:write" => TerminalImpliesNoDirection

\* C8 witness: a switch press was handled in (Open, None) after an update that
\* had found the door moving up.
C8_Witness ==
    /\ lastStep = [by |-> "SwitchPressed", state |-> "Open", dir |-> "None"]
    /\ updPrior = [state |-> "Opening", dir |-> "Up"]
    /\ mainPc = "idle"

\* C9: outside a running update the state is Bad only if the last update read
\* both sensors matched; only a write of an update that read both sensors
\* matched makes the state Bad; an update that read both unmatched never
\* returns with the state Bad.
C9_BadOnlyBothMatched ==
    /\ []( ( door.m_currentState = "Bad"
             /\ mainPc \notin {"UpdateStatus:branch", "UpdateStatus:write"} )
           => (bIsOpen /\ bIsClosed) )
    /\ [][ /\ (door'.m_currentState = "Bad" /\ door.m_currentState # "Bad")
               => (mainPc = "UpdateStatus:write" /\ bIsOpen /\ bIsClosed)
           /\ (UpdateStatusReturns /\ ~bIsOpen /\ ~bIsClosed)
               => door'.m_currentState # "Bad" ]_vars

\* C9 witness: an update that found Bad and read both sensors unmatched has
\* returned, and the state is no longer Bad.
C9_Witness ==
    /\ mainPc = "idle"
    /\ lastStep.by = "UpdateStatus"
    /\ ~bIsOpen /\ ~bIsClosed
    /\ updPrior.state = "Bad"
    /\ door.m_currentState = "Unknown"

\* the step is a switch press handled in state `state`
SwitchPressHandledIn(state) ==
    /\ lastStep'.by = "SwitchPressed"
    /\ door.m_currentState = state

\* C10: a switch press handled in Closed asserts the open relay, in Open the
\* close relay, in Opening or Closing the stop relay, and in the last two sets
\* the state to Stopped and leaves the direction as it was.
C10_SwitchPolicy ==
    [][ /\ SwitchPressHandledIn("Closed") => OnlyRelay(door', "open")
        /\ SwitchPressHandledIn("Open") => OnlyRelay(door', "close")
        /\ (SwitchPressHandledIn("Opening") \/ SwitchPressHandledIn("Closing"))
             => /\ OnlyRelay(door', "stop")
                /\ door'.m_currentState = "Stopped"
                /\ door'.m_LastDirection = door.m_LastDirection ]_vars

\* C10 witness: a switch press was handled in (Closing, Down): the stop relay
\* is asserted, the state is Stopped and the direction still Down.
C10_Witness ==
    /\ lastStep = [by |-> "SwitchPressed", state |-> "Closing", dir |-> "Down"]
    /\ OnlyRelay(door, "stop")
    /\ StateDir(door) = <<"Stopped", "Down">>

\* C11: a switch press handled in Stopped asserts the open relay when the
\* recorded direction is Down and the close relay when it is Up; with
\* direction None SwitchPressed makes no timer call and no pin write, and the
\* door object is left as it was.
C11_StoppedPress ==
    /\ \A added \in {"ok", "failed"} : SwitchPressed("Stopped", "None", added) = << >>
    /\ [][ SwitchPressHandledIn("Stopped") =>
             /\ door.m_LastDirection = "Down" => OnlyRelay(door', "open")
             /\ door.m_LastDirection = "Up"   => OnlyRelay(door', "close")
             /\ door.m_LastDirection = "None" => door' = door ]_vars

\* C11 witness: a switch press was handled in (Stopped, Down) and the open
\* relay alone is asserted.
C11_Witness ==
    /\ lastStep = [by |-> "SwitchPressed", state |-> "Stopped", dir |-> "Down"]
    /\ OnlyRelay(door, "open")
    /\ StateDir(door) = <<"Stopped", "Down">>

\* C12: a switch press handled in Bad or Unknown changes nothing: the relays,
\* the registered timer callbacks, the state and the direction stay as they were.
C12_BadUnknownPress ==
    [][ (SwitchPressHandledIn("Bad") \/ SwitchPressHandledIn("Unknown"))
          => door' = door ]_vars

\* C12 witness: a switch press was handled in Bad while the light relay was
\* asserted with its release callback registered, and both are still so.
C12_Witness ==
    /\ lastStep = [by |-> "SwitchPressed", state |-> "Bad", dir |-> "None"]
    /\ OnlyRelay(door, "light")
    /\ door.timerCallbacks = 1
    /\ door.m_currentState = "Bad"

-----------------------------------------------------------------------------
(* Claims about the switch pin's hooks (checked under SpecPin) *)

\* C13 as stated: the switch pin hands SwitchPress to the controller when the
\* line is accepted as entering the matched state.
C13_Original ==
    (pin.cfg.name = "switch" /\ hooks.event = "SwitchPress") => isrBranch = "match"

\* C13 amended: SwitchPress is handed to the controller by the switch pin's
\* unmatch hook, exactly when the switch line is accepted as leaving the
\* matched state; the match hook hands over Nothing, which the state table
\* maps to DoNowt in every state, while SwitchPress maps to SwitchPressed.
C13_PressOnUnmatch ==
    /\ hooks.event = "SwitchPress" <=> (pin.cfg.name = "switch" /\ isrBranch = "unmatch")
    /\ (pin.cfg.name = "switch" /\ isrBranch = "match") => hooks.event = "Nothing"
    /\ \A s \in States : /\ StateTableFn(s, "SwitchPress") = "SwitchPressed"
                         /\ StateTableFn(s, "Nothing") = "DoNowt"

\* C13 witness: the switch line was accepted as matched, which handed over
\* Nothing, and has now been accepted as unmatched, which handed over SwitchPress.
C13_Witness ==
    /\ pin.cfg.name = "switch"
    /\ isrBranch = "unmatch"
    /\ hooks.MatchAction = 1
    /\ hooks.UnmatchAction = 1
    /\ hooks.event = "SwitchPress"

-----------------------------------------------------------------------------
(* Claims about relay pulses (checked under SpecDoor) *)

Asserted(d) == {r \in Relays : d.relay[r]}

\* the step in which a call of DoRequest that no interrupt handler interleaved
\* with returns
DoRequestReturnsAlone ==
    /\ mainPc = "DoRequest"
    /\ mainPc' = "idle"
    /\ mainAlone

\* C14: in every reachable state at most one of the four relays is asserted.
C14_AtMostOneRelay == Cardinality(Asserted(door)) <= 1

\* C15: every request makes its calls in the order cancel the pending timer,
\* deassert the four relays, arm the release timer, assert the relay of the
\* request; when it returns uninterrupted exactly that relay is asserted and a
\* release timer is registered.
C15_RequestSequence ==
    /\ \A r \in Requests :
          /\ [i \in 1..Len(DoRequestOps(r)) |-> DoRequestOps(r)[i].op]
               = << "RemoveCallBack", "Off", "Off", "Off", "Off", "AddCallBack", "On" >>
          /\ { DoRequestOps(r)[i].arg : i \in 2..5 } = Relays
          /\ DoRequestOps(r)[Len(DoRequestOps(r))].arg = RequestPin(r)
    /\ [][ DoRequestReturnsAlone =>
             /\ OnlyRelay(door', RequestPin(mainReq))
             /\ door'.timerCallbacks > 0 ]_vars

C17_NoRelayWithoutTimer == Asserted(door) # {} => door.timerCallbacks > 0

-----------------------------------------------------------------------------
(* Claims about the FixedIPList (checked under SpecList) *)

\* the entries of a list, as its iteration returns them
Entries(l) == IterateFrom(l, GetIterator)

Range(seq) == { seq[i] : i \in 1..Len(seq) }

\* the last n elements of a sequence, all of it if it is shorter
LastN(seq, n) ==
    IF Len(seq) <= n THEN seq ELSE SubSeq(seq, Len(seq) - n + 1, Len(seq))

\* C18: after any sequence of Add calls no address occurs twice among the
\* entries and Count is at most MaxEntries; an Add of an address that was
\* among the entries left the slots and the count as they were.
C18_NoDuplicates ==
    /\ Count(ipList) <= MaxEntries
    /\ Len(Entries(ipList)) = Count(ipList)
    /\ \A i, j \in 1..Count(ipList) :
          i # j => Entries(ipList)[i] # Entries(ipList)[j]
    /\ (ipLast.called /\ ipLast.addition \in Range(Entries(ipLast.before)))
          => ipList = ipLast.before

\* C18 witness: the list was full and an address among its entries was added
\* again; the list is as it was.
C18_Witness ==
    /\ ipLast.called
    /\ Count(ipLast.before) = MaxEntries
    /\ ipLast.addition \in Range(Entries(ipLast.before))
    /\ ipList = ipLast.before

\* C19: an Add of an address that was not among the entries of a full list
\* left the entries without their first, in the same order, followed by the
\* new address; iteration returns the entries in the order they were stored.
C19_EvictOldest ==
    /\ ( /\ ipLast.called
         /\ Count(ipLast.before) = MaxEntries
         /\ ipLast.addition \notin Range(Entries(ipLast.before)) )
          => Entries(ipList) = Tail(Entries(ipLast.before)) \o << ipLast.addition >>
    /\ Entries(ipList) = LastN(ipStored, MaxEntries)

\* C19 witness: a new address was added to a full list, whose oldest entry
\* is gone and whose newest entry is the new address.
C19_Witness ==
    /\ ipLast.called
    /\ Count(ipLast.before) = MaxEntries
    /\ ipLast.addition \notin Range(Entries(ipLast.before))
    /\ Head(Entries(ipLast.before)) \notin Range(Entries(ipList))
    /\ Entries(ipList)[MaxEntries] = ipLast.addition
    /\ Len(ipStored) > MaxEntries

-----------------------------------------------------------------------------
(* Claims about the message decoder (checked under SpecUdp) *)

Request(tag) == cMsgVersion1 \o PartSeparator \o tag

\* the last message was Request(tag) and caused one callback call, with `kind`,
\* no restart and no change of the error counters
Dispatched(tag, kind) ==
    udpLast.msg = Request(tag) =>
        /\ udpLast.callbacks = << kind >>
        /\ ~udpLast.reset
        /\ udp = udpLast.before

\* C20 as stated: each of the eight requests V001:M001 .. V001:M008 causes
\* exactly one call of the request callback and changes no error counter.
C20_Original ==
    (udpLast.processed /\ udpLast.msg \in { Request(t) : t \in
        { TempHumidityReqMsg, RestartReqMsg, DoorStatusReqMsg, DoorOpenReqMsg,
          DoorCloseReqMsg, DoorStopReqMsg, DoorLightOnReqMsg, DoorLightOffReqMsg } })
      => (Len(udpLast.callbacks) = 1 /\ udp = udpLast.before)

\* C20 amended: the requests M001 and M003 .. M008 each cause exactly one call
\* of the request callback, with the kind of the tag, and change no error
\* counter; M002 causes no callback call: the decoder restarts the board.
C20_Dispatch ==
    udpLast.processed =>
        /\ Dispatched(TempHumidityReqMsg, "TEMPDATA")
        /\ Dispatched(DoorStatusReqMsg, "DOORDATA")
        /\ Dispatched(DoorOpenReqMsg, "DOOROPEN")
        /\ Dispatched(DoorCloseReqMsg, "DOORCLOSE")
        /\ Dispatched(DoorStopReqMsg, "DOORSTOP")
        /\ Dispatched(DoorLightOnReqMsg, "LIGHTON")
        /\ Dispatched(DoorLightOffReqMsg, "LIGHTOFF")
        /\ udpLast.msg = Request(RestartReqMsg)
              => (udpLast.callbacks = << >> /\ udpLast.reset)

\* C20 witness: V001:M003 was processed after a message with an unknown tag
\* and one with an unknown version: one DOORDATA call, both counters still 1.
C20_Witness ==
    /\ udpLast.processed
    /\ udpLast.msg = << "V", "0", "0", "1", ":", "M", "0", "0", "3" >>
    /\ udpLast.callbacks = << "DOORDATA" >>
    /\ udp = [ m_ulBadRequests |-> 1, m_ulBadMgsVersion |-> 1 ]

\* the command tags ProcessUDPMessage knows
KnownTags ==
    { TempHumidityReqMsg, RestartReqMsg, DoorStatusReqMsg, DoorOpenReqMsg,
      DoorCloseReqMsg, DoorStopReqMsg, DoorLightOnReqMsg, DoorLightOffReqMsg }

\* the step hands a message to the decoder
Decodes == udpLast'.processed /\ udpMsgs' = udpMsgs + 1

C22_BadRequest ==
    [][ ( /\ Decodes
          /\ \E t \in Tags : /\ udpLast'.msg = Request(t)
                              /\ \A k \in KnownTags : ~startsWith(t, k) ) =>
          /\ udp'.m_ulBadRequests = udp.m_ulBadRequests + 1
          /\ udp'.m_ulBadMgsVersion = udp.m_ulBadMgsVersion
          /\ udpLast'.callbacks = << >>
          /\ ~udpLast'.reset ]_vars

\* C22 witness: V001:M999 was processed after a message with an unknown
\* version: m_ulBadRequests went from 0 to 1, m_ulBadMgsVersion is still 1.
C22_Witness ==
    /\ udpLast.processed
    /\ udpLast.msg = << "V", "0", "0", "1", ":", "M", "9", "9", "9" >>
    /\ udpLast.callbacks = << >>
    /\ udpLast.before = [ m_ulBadRequests |-> 0, m_ulBadMgsVersion |-> 1 ]
    /\ udp = [ m_ulBadRequests |-> 1, m_ulBadMgsVersion |-> 1 ]

-----------------------------------------------------------------------------
(* Connection state of the network service *)

\* an operation that needs the network has been made in this step
NetworkOp ==
    /\ svcOps' = svcOps + 1
    /\ svcLast'.op \in { "GetUDPMessage", "SendReply", "SendAll", "DoorNews" }

\* C23: when the service is Unconnected and GetUDPMessage, SendReply or SendAll
\* is called and the connect attempt fails, the service is still Unconnected,
\* m_beginTimeouts has grown by exactly one, the operation returns false, and
\* the radio is left down, so that the next call attempts the connect again.
C23_FailedConnect ==
    [][ (NetworkOp /\ svc.m_State = "UNCONNECTED" /\ svcLast'.connect = "failed")
        => /\ svc'.m_State = "UNCONNECTED"
           /\ svc'.m_beginTimeouts = svc.m_beginTimeouts + 1
           /\ svc'.m_beginConnects = svc.m_beginConnects
           /\ ~svcLast'.bResult
           /\ svcLast'.sent = << >>
           /\ ~wl' ]_vars

\* a connect attempt has failed in a service that was Unconnected
C23_Witness ==
    /\ svcLast.op \in { "GetUDPMessage", "SendReply", "SendAll", "DoorNews" }
    /\ svcLast.stateBefore = "UNCONNECTED"
    /\ svcLast.connect = "failed"
    /\ svc.m_beginTimeouts = 2

\* C24: a step that takes the service from Unconnected to Connected leaves
\* m_myUDP begun (the UDP port open): the service is never Connected without
\* an open UDP port.
C24_ConnectedWithPort ==
    [][ (svc.m_State = "UNCONNECTED" /\ svc'.m_State = "CONNECTED")
        => svc'.m_myUDP = "begun" ]_vars

\* SendReply has been called in this step with a message that is not empty,
\* in a Connected service, and has got as far as sending
ReplySent ==
    /\ svcOps' = svcOps + 1
    /\ svcLast'.op = "SendReply"
    /\ ~svcLast'.empty
    /\ svc.m_State = "CONNECTED"
    /\ svcLast'.connect # "failed"

\* C25: when Connected, a SendReply whose send fails (beginPacket or
\* endPacket reports an error) leaves the service Unconnected, returns false
\* and does not count a reply; one whose send succeeds counts exactly one
\* reply, returns true and leaves the service Connected.
C25_SendReply ==
    [][ ReplySent =>
          IF svcLast'.failed
          THEN /\ svc'.m_State = "UNCONNECTED"
               /\ ~svcLast'.bResult
               /\ svc'.m_ulReplyCount = svc.m_ulReplyCount
          ELSE /\ svc'.m_State = "CONNECTED"
               /\ svcLast'.bResult
               /\ svc'.m_ulReplyCount = svc.m_ulReplyCount + 1 ]_vars

\* SendAll has been called in this step with a message that is not empty, in
\* a Connected service, and has got as far as sending
MulticastSent ==
    /\ svcOps' = svcOps + 1
    /\ svcLast'.op \in { "SendAll", "DoorNews" }
    /\ ~svcLast'.empty
    /\ svc.m_State = "CONNECTED"
    /\ svcLast'.connect # "failed"

\* C26: when Connected, a SendAll during which the send to some address of
\* the list fails leaves the service Unconnected when it returns, whether or
\* not sends to other addresses succeeded in the same call.
C26_FailedMulticast ==
    [][ (MulticastSent /\ svcLast'.failed) => svc'.m_State = "UNCONNECTED" ]_vars

\* SendReply or SendAll has been called in this step with an empty message
EmptySend ==
    /\ svcOps' = svcOps + 1
    /\ svcLast'.op \in { "SendReply", "SendAll" }
    /\ svcLast'.empty

\* C27 as stated: a reply or multicast with an empty message sends no
\* datagram and leaves the connection state, m_ulReplyCount,
\* m_ulMCastSentCount and the list unchanged.
C27_Original ==
    [][ EmptySend
        => /\ svcLast'.sent = << >>
           /\ svc'.m_State = svc.m_State
           /\ svc'.m_ulReplyCount = svc.m_ulReplyCount
           /\ svc'.m_ulMCastSentCount = svc.m_ulMCastSentCount
           /\ ipList' = ipList ]_vars

\* C27: a reply or multicast with an empty message sends no datagram and
\* leaves m_ulReplyCount, m_ulMCastSentCount and the list unchanged. Like
\* every network operation it calls WiFiConnect first: with the radio up the
\* whole service object is unchanged; with the radio down the connection
\* state becomes that of the connect attempt, and the attempt is counted.
C27_EmptyMessage ==
    [][ EmptySend
        => /\ svcLast'.sent = << >>
           /\ ~svcLast'.bResult
           /\ svc'.m_ulReplyCount = svc.m_ulReplyCount
           /\ svc'.m_ulMCastSentCount = svc.m_ulMCastSentCount
           /\ ipList' = ipList
           /\ wl => (svc' = svc /\ wl')
           /\ ~wl => \/ /\ svc'.m_State = "CONNECTED"
                         /\ svc'.m_beginConnects = svc.m_beginConnects + 1
                      \/ /\ svc'.m_State = "UNCONNECTED"
                         /\ svc'.m_beginTimeouts = svc.m_beginTimeouts + 1 ]_vars

\* SendAll has been called with an empty message in a Connected service with
\* the radio up and an address to send to
C27_Witness ==
    /\ svcLast.op = "SendAll"
    /\ svcLast.empty
    /\ svcLast.connect = "notNeeded"
    /\ svcLast.stateBefore = "CONNECTED"
    /\ svc.m_State = "CONNECTED"
    /\ Count(ipList) > 0

\* C28: while the service is in AP_MODE, GetUDPMessage (CheckUDP), SendReply
\* and SendAll attempt no connect and leave the state AP_MODE; the state
\* leaves AP_MODE only by the restart that follows a saved configuration.
C28_Provisioning ==
    [][ svc.m_State = "AP_MODE"
        => /\ NetworkOp => (svcLast'.connect = "notNeeded" /\ svc'.m_State = "AP_MODE")
           /\ svc'.m_State # "AP_MODE" => svcLast'.op = "Begin" ]_vars

\* C29: when loop records a change of the door state or of the light, the
\* door status is multicast to every address of the list; no recorded change
\* is left unsent to an address of the list.
C29_NewsToAll ==
    [][ (svcOps' = svcOps + 1 /\ svcLast'.op = "DoorNews" /\ lastNews' # lastNews)
        => svcLast'.sent = Entries(ipList) ]_vars

-----------------------------------------------------------------------------
(* Release of the relay pulse *)

\* TheTimer has called TurnOffControlPins in this step
TimerFired == lastStep' # lastStep /\ lastStep'.by = "TurnOffControlPins"

\* C30: with the timer and the poll loop running, whenever a relay is
\* asserted all four relays are eventually deasserted again, and after the
\* timer's call of TurnOffControlPins no callback remains registered.
C30_PulseReleased ==
    /\ (Asserted(door) # {}) ~> (Asserted(door) = {})
    /\ [][TimerFired => door'.timerCallbacks = 0]_vars

-----------------------------------------------------------------------------
(* The debounced flag of an InputPin *)

\* ProcessISR has run in this step
ISRRan == pin'.m_ISRCalledCount = pin.m_ISRCalledCount + 1

\* C31 as stated: on a leave-matched transition past the debounce interval
\* m_CurrentMatchedState is set to false when the transition is counted as
\* unmatched, and left unchanged when it is classified spurious because the
\* matched interval was too long.
C31_Original ==
    [][ ISRRan
        => /\ isrBranch' = "unmatch" => ~pin'.m_CurrentMatchedState
           /\ isrBranch' = "spuriousLong"
                => pin'.m_CurrentMatchedState = pin.m_CurrentMatchedState ]_vars

\* C31: on a leave-matched transition past the debounce interval
\* m_CurrentMatchedState is set to false whether the transition is counted as
\* unmatched or classified spurious because the matched interval was too
\* long; the spurious one counts m_SpuriousCount only: m_UnmatchedCount and
\* m_MatchedDuration are left and UnmatchAction is not called.
C31_FlagCleared ==
    [][ ISRRan
        => /\ isrBranch' \in { "unmatch", "spuriousLong" } => ~pin'.m_CurrentMatchedState
           /\ isrBranch' = "spuriousLong"
                => /\ pin'.m_SpuriousCount = pin.m_SpuriousCount + 1
                   /\ pin'.m_UnmatchedCount = pin.m_UnmatchedCount
                   /\ pin'.m_MatchedDuration = pin.m_MatchedDuration
                   /\ hooks'.UnmatchAction = hooks.UnmatchAction ]_vars

\* a line that was accepted as matched has left the matched level after the
\* maximum matched time: classified spurious, and the flag is false
C31_Witness ==
    /\ isrBranch = "spuriousLong"
    /\ firstRead # pin.cfg.m_MatchStatus
    /\ pin.m_ISRCalledCount = 2
    /\ pin.m_MatchedCount = 1
    /\ ~pin.m_CurrentMatchedState

-----------------------------------------------------------------------------
(* Size of an inbound datagram *)

\* GetUDPMessage has found a datagram waiting in this step, and
\* m_myUDP.read did not fail
DatagramArrived ==
    /\ svcOps' = svcOps + 1
    /\ svcLast'.op = "GetUDPMessage"
    /\ svcLast'.packetSize > 0
    /\ svcLast'.packet # "readFailed"

\* C32: every inbound datagram of at most 255 bytes is read, counted in
\* m_ulReqCount and handed on for decoding (GetUDPMessage returns true); a
\* datagram is rejected for its size only when it is longer than 255 bytes.
C32_AcceptedUpTo255 ==
    [][ DatagramArrived
        => IF svcLast'.packetSize <= MAX_INCOMING_UDP_MSG
           THEN /\ svcLast'.bResult
                /\ svc'.m_ulReqCount = svc.m_ulReqCount + 1
                /\ udp'.m_ulBadRequests = udp.m_ulBadRequests
           ELSE /\ ~svcLast'.bResult
                /\ svc'.m_ulReqCount = svc.m_ulReqCount ]_vars

-----------------------------------------------------------------------------
(* Direction of a moving or stopped door *)

\* C33: in every reachable state, those in the middle of an update that an
\* interrupt can observe included, Opening implies direction Up, Closing
\* implies direction Down and Stopped implies direction Up or Down; no switch
\* press is handled in Stopped with direction None.
C33_DirectionKnown ==
    /\ []( /\ door.m_currentState = "Opening" => door.m_LastDirection = "Up"
           /\ door.m_currentState = "Closing" => door.m_LastDirection = "Down"
           /\ door.m_currentState = "Stopped" => door.m_LastDirection \in {"Up", "Down"} )
    /\ [][ ~(SwitchPressHandledIn("Stopped") /\ door.m_LastDirection = "None") ]_vars

\* C33 witness: a switch press was handled in (Stopped, Up) by an interrupt
\* that came while an update of the poll loop had its two writes still to make
C33_Witness ==
    /\ lastStep = [by |-> "SwitchPressed", state |-> "Stopped", dir |-> "Up"]
    /\ mainPc = "UpdateStatus:write"
    /\ Len(mainOps) = 2
    /\ ~mainAlone

\* C34: a switch press handled in Stopped asserts the reversing relay (open
\* after Down, close after Up) and not the stop relay, and leaves the state
\* Stopped and the direction as it was; the state leaves Stopped only by a
\* write of an update that read a boundary sensor matched. Every further
\* press is therefore handled in Stopped with the same direction again.
C34_StoppedStays ==
    /\ [][ SwitchPressHandledIn("Stopped")
            => /\ StateDir(door') = StateDir(door)
               /\ door.m_LastDirection = "Down" => OnlyRelay(door', "open")
               /\ door.m_LastDirection = "Up" => OnlyRelay(door', "close") ]_vars
    /\ [][ (door.m_currentState = "Stopped" /\ StateDir(door') # StateDir(door))
            => (mainPc = "UpdateStatus:write" /\ (bIsOpen \/ bIsClosed)) ]_vars

\* C34 witness: with both boundary sensors read unmatched, a switch press was
\* handled in (Stopped, Up): the close relay alone is asserted and the state
\* is still (Stopped, Up)
C34_Witness ==
    /\ lastStep = [by |-> "SwitchPressed", state |-> "Stopped", dir |-> "Up"]
    /\ mainPc = "idle"
    /\ ~bIsOpen /\ ~bIsClosed
    /\ OnlyRelay(door, "close")
    /\ StateDir(door) = <<"Stopped", "Up">>

-----------------------------------------------------------------------------
(* Requests and the position model *)

\* the poll loop has entered DoRequest or made one of its calls in this step
DoRequestStep ==
    /\ lastStep'.by = "DoRequest"
    /\ mainPc' # mainPc \/ mainOps' # mainOps

\* C35: no step of DoRequest, whatever the request, changes the state or the
\* direction; a StopDoor request returns with the stop relay asserted and the
\* state as it found it, Opening and Closing included.
C35_RequestKeepsState ==
    [][ DoRequestStep
        => /\ StateDir(door') = StateDir(door)
           /\ (mainPc' = "idle" /\ mainReq = "StopDoor") => door'.relay["stop"] ]_vars

\* C35 witness: a StopDoor request has returned in state Opening: the stop
\* relay is asserted and the state is still Opening
C35_Witness ==
    /\ mainPc = "idle"
    /\ mainReq = "StopDoor"
    /\ lastStep = [by |-> "DoRequest", state |-> "Opening", dir |-> "Up"]
    /\ OnlyRelay(door, "stop")
    /\ StateDir(door) = <<"Opening", "Up">>
    /\ mainAlone

\* C36: LightOn and LightOff make the same calls: cancel the pending timer,
\* deassert the four relays, arm the release timer, assert the light relay;
\* when either returns uninterrupted the light relay alone is asserted and
\* one release timer is registered, whichever of the two was requested.
C36_LightRequestsAlike ==
    /\ DoRequestOps("LightOn") = DoRequestOps("LightOff")
    /\ [][ (DoRequestReturnsAlone /\ mainReq \in {"LightOn", "LightOff"})
            => /\ OnlyRelay(door', "light")
               /\ door'.timerCallbacks = 1 ]_vars

-----------------------------------------------------------------------------
(* What the decoder looks at *)

\* the request kind of a known tag; none for the restart request
KindOf(tag) ==
    CASE tag = TempHumidityReqMsg -> << "TEMPDATA" >>
      [] tag = DoorStatusReqMsg   -> << "DOORDATA" >>
      [] tag = DoorOpenReqMsg     -> << "DOOROPEN" >>
      [] tag = DoorCloseReqMsg    -> << "DOORCLOSE" >>
      [] tag = DoorStopReqMsg     -> << "DOORSTOP" >>
      [] tag = DoorLightOnReqMsg  -> << "LIGHTON" >>
      [] tag = DoorLightOffReqMsg -> << "LIGHTOFF" >>
      [] OTHER                    -> << >>

\* V001, one character, a known tag, any suffix
VersionAnyTagSuffix(msg) ==
    /\ Len(msg) >= 9
    /\ SubSeq(msg, 1, 4) = cMsgVersion1
    /\ SubSeq(msg, 6, 9) \in KnownTags

\* C37: a message made of V001, any one character, a known tag and any
\* suffix is decoded as V001: followed by that tag is: one callback call with
\* the tag's kind and no counter changed, or the restart for M002; the
\* character in the separator's place and the suffix make no difference.
C37_SeparatorAndSuffixIgnored ==
    (udpLast.processed /\ VersionAnyTagSuffix(udpLast.msg))
      => LET tag == SubSeq(udpLast.msg, 6, 9)
         IN  /\ udpLast.callbacks = KindOf(tag)
             /\ udpLast.reset = (tag = RestartReqMsg)
             /\ udp = IF udpLast.reset THEN UDPWiFiService ELSE udpLast.before
             /\ udpLast.callbacks = ProcessUDPMessage(Request(tag)).callbacks
             /\ udpLast.reset = ProcessUDPMessage(Request(tag)).reset

\* C37 witness: "V001;M004:x" was processed: another character than the
\* separator before the tag and two characters after it, and DOOROPEN was
\* dispatched
C37_Witness ==
    /\ udpLast.processed
    /\ udpLast.msg = << "V", "0", "0", "1", ";", "M", "0", "0", "4", ":", "x" >>
    /\ udpLast.callbacks = << "DOOROPEN" >>
    /\ udp = udpLast.before

-----------------------------------------------------------------------------
(* The debounced flag and the recorded level *)

\* C38: after any sequence of notifications IsMatched () is true exactly when
\* the last recorded reading m_LastPinRead is the level m_MatchStatus.
C38_FlagFollowsLevel ==
    pin.m_CurrentMatchedState = (pin.m_LastPinRead = pin.cfg.m_MatchStatus)

-----------------------------------------------------------------------------
(* The empty address among the entries *)

\* the addresses a loop `while ((nextIP = GetNext (iterator)) != 0UL)` visits
\* from `iterator` on
RECURSIVE VisitedFrom(_, _)
VisitedFrom(l, iterator) ==
    LET g == GetNext(l, iterator)
    IN  IF g.Result = EmptyAddress THEN << >>
        ELSE << g.Result >> \o VisitedFrom(l, g.iterator)

=============================================================================
